---------------------------- MODULE Spec2Model ----------------------------
(***************************************************************************)
(* Model of the phishing-guard heuristic engine (src/app/detector.py) and  *)
(* of its URL reputation adapter (src/app/services/url_reputation.py).     *)
(*                                                                         *)
(* Text is modelled by TLA+ strings, which TLC treats as sequences of      *)
(* characters (Len, \o, SubSeq, Head, Tail).  Python's 0-based indices and *)
(* half-open slices are kept (Find, Slice), so that the string code reads  *)
(* like its source.  A local variable of the source is a parameter of the  *)
(* operator that models the statements after its assignment.               *)
(***************************************************************************)
EXTENDS Integers, Sequences, FiniteSets, TLC

(***************************************************************************)
(* Python str primitives                                                   *)
(***************************************************************************)
None == "<None>"

Min(a, b) == IF a <= b THEN a ELSE b

Max(a, b) == IF a >= b THEN a ELSE b

\* s[i] for a 0-based index i; "" outside the string, where no character test holds
At(s, i) == IF 0 <= i /\ i < Len(s) THEN SubSeq(s, i + 1, i + 1) ELSE ""

\* s[a:b] for 0 <= a, with Python's clamping of b to len(s)
Slice(s, a, b) == SubSeq(s, a + 1, Min(b, Len(s)))

AsciiUpper == "ABCDEFGHIJKLMNOPQRSTUVWXYZ"

AsciiLower == "abcdefghijklmnopqrstuvwxyz"

Digits == "0123456789"

Chars(s) == {At(s, i) : i \in 0..(Len(s) - 1)}

UpperSet == Chars(AsciiUpper)

LowerSet == Chars(AsciiLower)

AlphaSet == UpperSet \cup LowerSet

DigitSet == Chars(Digits)

\* the letter U+0130, capital I with a dot above, written as a character of
\* its own: the one letter here whose lower-case form has two characters
DottedI == "|"

\* the mark U+0307, combining dot above, that follows i in the lower-case
\* form of U+0130
CombiningDot == "~"

\* the upper-case letters str.isupper() and str.lower() know
CasedUpperSet == UpperSet \cup {DottedI}

\* the class [a-z] under the (?i) flag, which also matches U+0130
LetterSetI == AlphaSet \cup {DottedI}

\* \s of the re module (its ASCII members)
SpaceSet == {" ", "\n", "\t", "\r"}

\* \w of the re module (its ASCII members and U+0130)
WordSet == AlphaSet \cup DigitSet \cup {"_", DottedI}

\* str.lower() of one character: one character, but two for U+0130
LowerCh(c) ==
    IF c \in UpperSet
    THEN At(AsciiLower, CHOOSE i \in 0..25 : At(AsciiUpper, i) = c)
    ELSE IF c = DottedI THEN "i" \o CombiningDot
    ELSE c

\* str.lower(), character by character (by halves, to keep the recursion shallow)
RECURSIVE Lower(_)
Lower(s) ==
    IF Len(s) = 0 THEN ""
    ELSE IF Len(s) = 1 THEN LowerCh(s)
    ELSE Lower(SubSeq(s, 1, Len(s) \div 2)) \o Lower(SubSeq(s, Len(s) \div 2 + 1, Len(s)))

\* str.startswith(p)
StartsWith(s, p) == Len(p) <= Len(s) /\ SubSeq(s, 1, Len(p)) = p

\* str.endswith(p)
EndsWith(s, p) == Len(p) <= Len(s) /\ SubSeq(s, Len(s) - Len(p) + 1, Len(s)) = p

\* whether p occurs in s at 0-based index i
OccursAt(s, p, i) == i + Len(p) <= Len(s) /\ SubSeq(s, i + 1, i + Len(p)) = p

\* the least member of a non-empty set of integers, -1 for the empty set
Least(set) == IF set = {} THEN -1 ELSE CHOOSE i \in set : \A j \in set : i <= j

\* str.find(p): the lowest 0-based index of p in s, or -1
Find(s, p) == Least({i \in 0..(Len(s) - Len(p)) : OccursAt(s, p, i)})

\* p in s
Contains(s, p) == \E i \in 0..(Len(s) - Len(p)) : OccursAt(s, p, i)

\* the lowest index k in lo..hi-1 with (s[k] \in cls) = member, or hi if none
\* (searched by halves, to keep the recursion shallow)
RECURSIVE FirstIndex(_, _, _, _, _)
FirstIndex(s, lo, hi, cls, member) ==
    IF lo >= hi THEN hi
    ELSE IF hi = lo + 1 THEN (IF (At(s, lo) \in cls) = member THEN lo ELSE hi)
    ELSE LET mid == (lo + hi) \div 2
             left == FirstIndex(s, lo, mid, cls, member)
         IN  IF left < mid THEN left ELSE FirstIndex(s, mid, hi, cls, member)

\* the highest index k in lo..hi-1 with (s[k] \in cls) = member, or lo - 1 if none
RECURSIVE LastIndex(_, _, _, _, _)
LastIndex(s, lo, hi, cls, member) ==
    IF lo >= hi THEN lo - 1
    ELSE IF hi = lo + 1 THEN (IF (At(s, lo) \in cls) = member THEN lo ELSE lo - 1)
    ELSE LET mid == (lo + hi) \div 2
             right == LastIndex(s, mid, hi, cls, member)
         IN  IF right >= mid THEN right ELSE LastIndex(s, lo, mid, cls, member)

\* the length of the longest run, from index i, of characters of the set cls
RunIn(s, i, cls) ==
    IF i >= Len(s) THEN 0 ELSE FirstIndex(s, i, Len(s), cls, FALSE) - i

\* the length of the longest run, from index i, of characters outside the set cls
RunNotIn(s, i, cls) ==
    IF i >= Len(s) THEN 0 ELSE FirstIndex(s, i, Len(s), cls, TRUE) - i

\* str.strip()
Strip(s) ==
    Slice(s, FirstIndex(s, 0, Len(s), SpaceSet, FALSE),
             LastIndex(s, 0, Len(s), SpaceSet, FALSE) + 1)

\* x in xs for a list
InList(xs, x) == \E i \in 1..Len(xs) : xs[i] = x

\* xs[-1]
Last(xs) == xs[Len(xs)]

\* xs[:n]
Take(xs, n) == SubSeq(xs, 1, Min(n, Len(xs)))

\* sep.join(xs)
RECURSIVE Join(_, _)
Join(xs, sep) ==
    IF xs = <<>> THEN ""
    ELSE IF Len(xs) = 1 THEN xs[1]
    ELSE xs[1] \o sep \o Join(Tail(xs), sep)

\* the first field of s.split(sep) and the fields after it, for a separator of
\* one character: the field ends at index n
RECURSIVE SplitOn(_, _)
SplitAt(s, sep, n) ==
    IF n >= Len(s) THEN <<s>>
    ELSE <<Slice(s, 0, n)>> \o SplitOn(Slice(s, n + 1, Len(s)), sep)

\* s.split(sep) for a one-character separator
SplitOn(s, sep) == SplitAt(s, sep, RunNotIn(s, 0, {sep}))

\* the value of a string of decimal digits
RECURSIVE DecimalValue(_)
DecimalValue(s) ==
    IF s = "" THEN 0
    ELSE 10 * DecimalValue(SubSeq(s, 1, Len(s) - 1)) + Find(Digits, At(s, Len(s) - 1))

\* str(n) for a natural number n
RECURSIVE Str(_)
Str(n) == IF n < 10 THEN At(Digits, n) ELSE Str(n \div 10) \o At(Digits, n % 10)

\* the printable ASCII characters in code-point order (after tab, LF, CR)
AsciiOrder ==
    "\t\n\r !\"#$%&'()*+,-./0123456789:;<=>?@ABCDEFGHIJKLMNOPQRSTUVWXYZ[\\]^_abcdefghijklmnopqrstuvwxyz{|}~"

\* a < b for str: lexicographic by code point
RECURSIVE StrLess(_, _)
StrLess(a, b) ==
    IF b = "" THEN FALSE
    ELSE IF a = "" THEN TRUE
    ELSE IF Head(a) = Head(b) THEN StrLess(Tail(a), Tail(b))
    ELSE Find(AsciiOrder, Head(a)) < Find(AsciiOrder, Head(b))

\* x placed into the sorted list xs
RECURSIVE Insert(_, _)
Insert(xs, x) ==
    IF xs = <<>> THEN <<x>>
    ELSE IF StrLess(x, Head(xs)) THEN <<x>> \o xs
    ELSE <<Head(xs)>> \o Insert(Tail(xs), x)

\* sorted(xs)
RECURSIVE Sorted(_)
Sorted(xs) == IF xs = <<>> THEN <<>> ELSE Insert(Sorted(Tail(xs)), Head(xs))

\* list(dict.fromkeys(xs)), continuing from the keys acc: first occurrences, in order
RECURSIVE FromKeys(_, _)
FromKeys(xs, acc) ==
    IF xs = <<>> THEN acc
    ELSE FromKeys(Tail(xs), IF InList(acc, Head(xs)) THEN acc ELSE Append(acc, Head(xs)))

\* Iterating a set of str visits its members in the order of their hashes,
\* which str hash randomisation draws anew in every interpreter process.
\* The order under hash seed `seed` is the declaration order rotated by
\* seed - 1 places: distinct seeds give distinct orders, one seed one order.
IterOrder(members, seed) ==
    SubSeq(members, ((seed - 1) % Len(members)) + 1, Len(members))
    \o SubSeq(members, 1, (seed - 1) % Len(members))

\* the number of maximal runs, from index i, of at least `least` characters of
\* cls: len(re.findall(p, s)) for a pattern p that is [cls]{least,}
RECURSIVE CountRuns(_, _, _, _)
CountRunAt(s, j, n, cls, least) ==
    IF j >= Len(s) THEN 0
    ELSE (IF n >= least THEN 1 ELSE 0) + CountRuns(s, j + n, cls, least)

CountRunFrom(s, j, cls, least) == CountRunAt(s, j, RunIn(s, j, cls), cls, least)

CountRuns(s, i, cls, least) == CountRunFrom(s, i + RunNotIn(s, i, cls), cls, least)

\* the maximal runs, from index i, of characters of cls (negate = FALSE) or of
\* characters outside cls (negate = TRUE): re.findall(r"[cls]+", s), str.split()
RECURSIVE Tokens(_, _, _, _)
TokenAt(s, j, n, cls, negate) ==
    IF j >= Len(s) THEN <<>>
    ELSE <<Slice(s, j, j + n)>> \o Tokens(s, j + n, cls, negate)

TokenFrom(s, j, cls, negate) ==
    TokenAt(s, j, FirstIndex(s, j, Len(s), cls, negate) - j, cls, negate)

Tokens(s, i, cls, negate) ==
    TokenFrom(s, FirstIndex(s, i, Len(s), cls, ~negate), cls, negate)

(***************************************************************************)
(* URL extraction: URL_REGEX and _collect_urls                             *)
(***************************************************************************)
\* the characters excluded by the class [^\s<>"']
UrlStopSet == SpaceSet \cup {"<", ">", "\"", "'"}

\* the class [a-z0-9\-\_] under the (?i) flag
HostSet == LetterSetI \cup DigitSet \cup {"-", "_"}

\* \b at index i: exactly one of s[i-1], s[i] is a word character
WordBoundary(s, i) == (At(s, i - 1) \in WordSet) # (At(s, i) \in WordSet)

\* the length of the match of (?:https?://|www\.) at the head of the
\* lower-cased text low, 0 for no match
SchemePrefixLen(low) ==
    IF StartsWith(low, "https://") THEN 8
    ELSE IF StartsWith(low, "http://") THEN 7
    ELSE IF StartsWith(low, "www.") THEN 4
    ELSE 0

\* the length matched at i by (?:https?://|www\.) under (?i), 0 for no match
SchemeLen(s, i) == SchemePrefixLen(Lower(Slice(s, i, i + 8)))

\* end of a match of [^\s<>"']+ of n characters after a prefix that ends at j
UrlRunEnd(j, n) == IF n > 0 THEN j + n ELSE -1

\* end of the match at i of (?:https?://|www\.)[^\s<>"']+ whose prefix has p
\* characters, or -1
UrlAfterScheme(s, i, p) ==
    IF p = 0 THEN -1 ELSE UrlRunEnd(i + p, RunNotIn(s, i + p, UrlStopSet))

UrlSchemeEnd(s, i) == UrlAfterScheme(s, i, SchemeLen(s, i))

\* end of the optional (?:/[^\s<>"']*)? from index e
UrlPathEnd(s, e) ==
    IF At(s, e) = "/" THEN e + 1 + RunNotIn(s, e + 1, UrlStopSet) ELSE e

\* end of \.[a-z]{2,}(?:/[^\s<>"']*)? from index dot, where t letters follow the dot
UrlTldEnd(s, dot, t) ==
    IF At(s, dot) = "." /\ t >= 2 THEN UrlPathEnd(s, dot + 1 + t) ELSE -1

\* end of the match at i of [a-z0-9\-\_]+\.[a-z]{2,}(?:/[^\s<>"']*)? whose
\* first class matches h characters, or -1
UrlAfterHost(s, i, h) ==
    IF h = 0 THEN -1 ELSE UrlTldEnd(s, i + h, RunIn(s, i + h + 1, LetterSetI))

UrlBareEnd(s, i) == UrlAfterHost(s, i, RunIn(s, i, HostSet))

\* the first alternative that matches wins
FirstAlternative(a, b) == IF a # -1 THEN a ELSE b

\* end of the match of URL_REGEX that starts at i, or -1
UrlMatchEnd(s, i) ==
    IF ~WordBoundary(s, i) THEN -1
    ELSE FirstAlternative(UrlSchemeEnd(s, i), UrlBareEnd(s, i))

\* the start of the leftmost match of URL_REGEX at or after i, or -1
UrlMatchStart(s, i) == Least({j \in i..(Len(s) - 1) : UrlMatchEnd(s, j) # -1})

\* URL_REGEX.findall(s), scanning from index i: the leftmost match, then the
\* matches after its end
RECURSIVE UrlFindAll(_, _)
UrlMatchSpan(s, first, end) == <<Slice(s, first, end)>> \o UrlFindAll(s, end)

UrlMatchFrom(s, first) ==
    IF first = -1 THEN <<>> ELSE UrlMatchSpan(s, first, UrlMatchEnd(s, first))

UrlFindAll(s, i) == UrlMatchFrom(s, UrlMatchStart(s, i))

\* the url appended for one body match (lines 90-92)
CanonicalMatch(match) ==
    IF StartsWith(Lower(match), "www.") THEN "https://" \o match ELSE match

\* lines 93-94
AppendNew(urls, url) == IF InList(urls, url) THEN urls ELSE Append(urls, url)

\* the loop of lines 89-94 over the body matches
RECURSIVE MergeMatches(_, _)
MergeMatches(urls, matches) ==
    IF matches = <<>> THEN urls
    ELSE MergeMatches(AppendNew(urls, CanonicalMatch(Head(matches))), Tail(matches))

_collect_urls(payload) ==
    MergeMatches(FromKeys(payload.urls, <<>>), UrlFindAll(payload.body, 0))

(***************************************************************************)
(* Aggregation: _score_findings                                            *)
(***************************************************************************)
Severities == {"low", "medium", "high"}

\* a faulty weights table: a high finding weighs 30
WeightHigh30(severity) ==
    CASE severity = "low" -> 10
      [] severity = "medium" -> 20
      [] severity = "high" -> 30

\* the weights table of _score_findings
Weight(severity) ==
    CASE severity = "low" -> 10
      [] severity = "medium" -> 20
      [] severity = "high" -> 35

\* sum(weights[finding.severity] for finding in findings)
RECURSIVE SumWeights(_)
SumWeights(findings) ==
    IF findings = <<>> THEN 0
    ELSE Weight(Head(findings).severity) + SumWeights(Tail(findings))

\* a faulty aggregation without the cap
CapScoreUncapped(total) == total

\* score = min(100, score)
CapScore(total) == Min(100, total)

\* a faulty chain whose high begins at the weight of one high finding
RiskOfEager(score) ==
    IF score >= 35 THEN "high" ELSE IF score >= 30 THEN "medium" ELSE "low"

\* the threshold chain of lines 360-365
RiskOf(score) ==
    IF score >= 60 THEN "high" ELSE IF score >= 30 THEN "medium" ELSE "low"

\* the pair returned at line 366
ScoreAndRisk(score) == [score |-> score, risk |-> RiskOf(score)]

_score_findings(findings) == ScoreAndRisk(CapScore(SumWeights(findings)))

(***************************************************************************)
(* Lexicons (lines 16-54), in declaration order                            *)
(***************************************************************************)
URGENT_PHRASES ==
    <<"act now", "asap", "bank verification needed", "urgent", "immediately",
      "limited time", "suspend", "verify your account", "password expires",
      "account locked", "payment required">>

SENSITIVE_KEYWORDS ==
    <<"password", "passcode", "credit card", "debit card", "social security",
      "ssn", "account number", "pin", "verification code", "bank routing",
      "tax id">>

SUSPICIOUS_ATTACHMENT_EXTENSIONS ==
    <<".exe", ".scr", ".bat", ".js", ".vbs", ".cmd", ".com", ".pif", ".jar",
      ".cpl", ".ps1">>

\* the Finding model (models.py)
Finding(category, description, severity, evidence) ==
    [category |-> category, description |-> description,
     severity |-> severity, evidence |-> evidence]

(***************************************************************************)
(* _detect_urgency                                                         *)
(***************************************************************************)
\* str.isupper(): at least one cased character and no lower-case one
IsUpperWord(word) ==
    /\ \E i \in 0..(Len(word) - 1) : At(word, i) \in CasedUpperSet
    /\ \A i \in 0..(Len(word) - 1) : At(word, i) \notin LowerSet

\* the phrases kept by the comprehension of lines 100-102
UrgencyEvidence(text, seed) ==
    SelectSeq(IterOrder(URGENT_PHRASES, seed),
              LAMBDA phrase : Contains(text, phrase) /\ Len(phrase) > 3)

\* sum(1 for word in body.split() if word.isupper() and len(word) > 3)
ExcessiveCaps(body) ==
    Len(SelectSeq(Tokens(body, 0, SpaceSet, TRUE),
                  LAMBDA word : IsUpperWord(word) /\ Len(word) > 3))

\* len(re.findall(r"!{2,}", body))
ExclamationRuns(body) == CountRuns(body, 0, {"!"}, 2)

\* lines 108-109
PhrasesDetail(evidence) ==
    IF evidence # <<>>
    THEN <<"Urgency phrases detected: " \o Join(Sorted(evidence), ", ")>>
    ELSE <<>>

\* lines 110-111
CapsDetail(excessive_caps) ==
    IF excessive_caps >= 3 THEN <<"Multiple all-caps words detected.">> ELSE <<>>

\* lines 112-113
ExclamationDetail(exclamation_runs) ==
    IF exclamation_runs # 0 THEN <<"Repeated exclamation marks found.">> ELSE <<>>

\* the details list of lines 107-113
UrgencyDetails(payload, seed) ==
    PhrasesDetail(UrgencyEvidence(Lower(payload.subject \o "\n" \o payload.body), seed))
    \o CapsDetail(ExcessiveCaps(payload.body))
    \o ExclamationDetail(ExclamationRuns(payload.body))

\* lines 115-126
UrgencyFinding(details) ==
    IF details = <<>> THEN <<>>
    ELSE <<Finding("Urgency Tactics",
                   "Signals of artificial urgency present in subject/body.",
                   IF Len(details) = 1 THEN "medium" ELSE "high",
                   details)>>

_detect_urgency(payload, seed) == UrgencyFinding(UrgencyDetails(payload, seed))

(***************************************************************************)
(* _detect_sensitive_requests and _extract_context                         *)
(***************************************************************************)
\* lines 309-312 for a keyword found at index start
SnippetAt(body, keyword, window, start) ==
    IF start = -1 THEN <<>>
    ELSE <<Strip(Slice(body, Max(0, start - window), start + Len(keyword) + window))>>

\* one iteration of the loop of _extract_context
Snippet(body, keyword, window) ==
    SnippetAt(body, keyword, window, Find(Lower(body), keyword))

RECURSIVE _extract_context(_, _, _)
_extract_context(body, keywords, window) ==
    IF keywords = <<>> THEN <<>>
    ELSE Snippet(body, Head(keywords), window)
         \o _extract_context(body, Tail(keywords), window)

\* the default of the window parameter (line 304)
ContextWindow == 40

\* hits = [kw for kw in SENSITIVE_KEYWORDS if kw in text]
SensitiveHits(text, seed) ==
    SelectSeq(IterOrder(SENSITIVE_KEYWORDS, seed), LAMBDA kw : Contains(text, kw))

\* context_snippets or hits
SnippetsOrHits(context_snippets, hits) ==
    IF context_snippets # <<>> THEN context_snippets ELSE hits

\* lines 170-182
SensitiveFinding(body, hits) ==
    IF hits = <<>> THEN <<>>
    ELSE <<Finding("Sensitive Data Request",
                   "Email references requests for sensitive or credential information.",
                   "high",
                   SnippetsOrHits(_extract_context(body, hits, ContextWindow), hits))>>

_detect_sensitive_requests(payload, seed) ==
    SensitiveFinding(payload.body, SensitiveHits(Lower(payload.body), seed))

(***************************************************************************)
(* _detect_attachment_risk                                                 *)
(***************************************************************************)
\* a faulty comparison that keeps the case of the name
HasExtensionCased(name, ext) == EndsWith(name, ext)

\* name.lower().endswith(ext)
HasExtension(name, ext) == EndsWith(Lower(name), ext)

\* any(name.lower().endswith(ext) for ext in SUSPICIOUS_ATTACHMENT_EXTENSIONS)
IsFlaggedAttachment(name) ==
    \E i \in 1..Len(SUSPICIOUS_ATTACHMENT_EXTENSIONS) :
        HasExtension(name, SUSPICIOUS_ATTACHMENT_EXTENSIONS[i])

\* lines 234-244
AttachmentFinding(flagged) ==
    IF flagged = <<>> THEN <<>>
    ELSE <<Finding("Suspicious Attachments",
                   "Attachments carry extensions commonly used in malware.",
                   "high",
                   flagged)>>

_detect_attachment_risk(payload) ==
    IF payload.attachments = <<>> THEN <<>>
    ELSE AttachmentFinding(SelectSeq(payload.attachments, IsFlaggedAttachment))

(***************************************************************************)
(* Address and domain normalisation                                        *)
(***************************************************************************)
\* the number of occurrences of the character c in s
CountChar(s, c) == Cardinality({i \in 0..(Len(s) - 1) : At(s, i) = c})

\* a bare addr-spec: a string with a dangling or a second "@" is no address
BareAddr(t, ats) ==
    IF ats = 0 THEN t
    ELSE IF ats = 1 /\ ~EndsWith(t, "@") THEN t
    ELSE ""

\* the addr-spec between the angle brackets, rest being the text after "<"
AngleAddr(t, rest, close) ==
    IF close # -1 THEN Slice(rest, 0, close) ELSE BareAddr(t, CountChar(t, "@"))

AddrAfterOpen(t, rest) == AngleAddr(t, rest, Find(rest, ">"))

AddrSpec(t, open) ==
    IF open # -1 THEN AddrAfterOpen(t, Slice(t, open + 1, Len(t)))
    ELSE BareAddr(t, CountChar(t, "@"))

AddrOf(t) == AddrSpec(t, Find(t, "<"))

\* email.utils.parseaddr(s)[1], for the address forms the requests use: an
\* optional display name followed by <addr-spec>, or a bare addr-spec without
\* inner white space, quotes, commas or comments
ParseAddr(s) == AddrOf(Strip(s))

\* lines 348-349
NormalizedAddr(parsed) == IF parsed # "" THEN Lower(parsed) ELSE None

_normalize_email(email_address) ==
    IF email_address = None \/ email_address = "" THEN None
    ELSE NormalizedAddr(ParseAddr(email_address))

_domain_from_email(email_address) ==
    IF email_address = None \/ email_address = "" \/ ~Contains(email_address, "@")
    THEN None
    ELSE Strip(Lower(Last(SplitOn(email_address, "@"))))

\* the public-suffix rules that the modelled inputs meet (tldextract reads the
\* full Public Suffix List; every rule here is a rule of that list)
PublicSuffixes == {"com", "org", "net", "xyz", "io", "uk", "co.uk"}

\* the characters of a URL scheme
SchemeSet == AlphaSet \cup DigitSet \cup {"+", "-", "."}

\* the url without the scheme (a letter, then letters, digits, "+", "-", ".")
\* that ends before the "//" found at index at
SchemelessAt(url, at) ==
    IF at = 0 THEN Slice(url, 2, Len(url))
    ELSE IF \/ at < 2
            \/ At(url, at - 1) # ":"
            \/ At(url, 0) \notin AlphaSet
            \/ \E i \in 0..(at - 2) : At(url, i) \notin SchemeSet
         THEN url
    ELSE Slice(url, at + 2, Len(url))

\* tldextract's _schemeless_url: the url without a leading "scheme://" or "//"
SchemelessUrl(url) == SchemelessAt(url, Find(url, "//"))

\* the authority of a scheme-less url: up to the first "/", "?" or "#"
AuthorityOf(rest) == Slice(rest, 0, RunNotIn(rest, 0, {"/", "?", "#"}))

\* a host name without its trailing dots
WithoutTrailingDots(hostname) ==
    Slice(hostname, 0, LastIndex(hostname, 0, Len(hostname), {"."}, FALSE) + 1)

\* a host:port without the port
WithoutPort(hostport) ==
    WithoutTrailingDots(Strip(Slice(hostport, 0, RunNotIn(hostport, 0, {":"}))))

\* an authority without its user info
HostOf(authority) == WithoutPort(Last(SplitOn(authority, "@")))

\* tldextract's lenient_netloc: the host name of the url, without user info,
\* port and trailing dots (hosts in square brackets are not modelled)
LenientNetloc(url) == HostOf(AuthorityOf(SchemelessUrl(url)))

\* one octet of a dotted quad: 0..255 in decimal without a leading zero
IsOctet(label) ==
    /\ Len(label) \in 1..3
    /\ \A i \in 0..(Len(label) - 1) : At(label, i) \in DigitSet
    /\ (Len(label) > 1 => At(label, 0) # "0")
    /\ DecimalValue(label) <= 255

\* labels[i:] joined by dots (i 0-based)
JoinFrom(labels, i) == Join(SubSeq(labels, i + 1, Len(labels)), ".")

\* the least element of a set of label indexes, len(labels) for the empty set
LeastOr(hits, default) == IF hits = {} THEN default ELSE Least(hits)

\* tldextract's suffix_index: the index of the first label of the longest
\* public suffix the labels end with, len(labels) when they end with none
SuffixIndex(labels) ==
    LeastOr({i \in 0..(Len(labels) - 1) : Lower(JoinFrom(labels, i)) \in PublicSuffixes},
            Len(labels))

\* the ExtractResult for a host whose public suffix starts at label k
ExtractResult(netloc, labels, k) ==
    IF k = Len(labels) /\ Len(labels) = 4 /\ \A i \in 1..4 : IsOctet(labels[i])
    THEN [subdomain |-> "", domain |-> netloc, suffix |-> ""]
    ELSE [subdomain |-> IF k >= 2 THEN Join(SubSeq(labels, 1, k - 1), ".") ELSE "",
          domain |-> IF k >= 1 THEN labels[k] ELSE "",
          suffix |-> IF k # Len(labels) THEN JoinFrom(labels, k) ELSE ""]

ExtractLabels(netloc, labels) == ExtractResult(netloc, labels, SuffixIndex(labels))

ExtractNetloc(netloc) == ExtractLabels(netloc, SplitOn(netloc, "."))

\* tldextract.extract(url): the subdomain, domain and suffix of the url's host
TldExtract(url) == ExtractNetloc(LenientNetloc(url))

\* lines 326-329 of detector.py and 107-109 of url_reputation.py
RegistrableDomain(extracted) ==
    IF extracted.domain = "" THEN None
    ELSE IF extracted.suffix # ""
         THEN Lower(extracted.domain \o "." \o extracted.suffix)
         ELSE Lower(extracted.domain)

_domain_from_url(url) ==
    IF url = None \/ url = "" THEN None ELSE RegistrableDomain(TldExtract(url))

(***************************************************************************)
(* _detect_sender_anomalies                                                *)
(***************************************************************************)
\* the back quote of the evidence texts, which a TLA+ string cannot hold
BackQuote == "^"

Quoted(s) == BackQuote \o s \o BackQuote

\* a domain kept by the comprehension of line 147
KeptDomain(domain) == IF domain # None THEN <<domain>> ELSE <<>>

\* [_domain_from_url(u) for u in urls if _domain_from_url(u)]
RECURSIVE UrlDomainList(_)
UrlDomainList(urls) ==
    IF urls = <<>> THEN <<>>
    ELSE KeptDomain(_domain_from_url(Head(urls))) \o UrlDomainList(Tail(urls))

\* sorted(url_domains) for the set url_domains of line 147
SortedUrlDomains(urls) == Sorted(FromKeys(UrlDomainList(urls), <<>>))

\* the number of sample domains listed (line 149)
SampleSize == 3

\* the truth value of an optional string
Truthy(domain) == domain # None /\ domain # ""

\* lines 140-144
ReplyToEvidence(sender_domain, reply_to_domain) ==
    IF Truthy(sender_domain) /\ Truthy(reply_to_domain)
       /\ sender_domain # reply_to_domain
    THEN <<"Sender domain " \o Quoted(sender_domain) \o " differs from reply-to "
           \o Quoted(reply_to_domain) \o ".">>
    ELSE <<>>

\* a faulty item that lists every domain
LinkDomainEvidenceAll(sender_domain, url_domains) ==
    IF Truthy(sender_domain) /\ url_domains # <<>>
       /\ ~InList(url_domains, sender_domain)
    THEN <<"Links point to domains ("
           \o Join(url_domains, ", ")
           \o ") that do not match sender domain "
           \o Quoted(sender_domain) \o ".">>
    ELSE <<>>

\* lines 146-152
LinkDomainEvidence(sender_domain, url_domains) ==
    IF Truthy(sender_domain) /\ url_domains # <<>>
       /\ ~InList(url_domains, sender_domain)
    THEN <<"Links point to domains ("
           \o Join(Take(url_domains, SampleSize), ", ")
           \o ") that do not match sender domain "
           \o Quoted(sender_domain) \o ".">>
    ELSE <<>>

\* the evidence list of lines 140-152
SenderEvidenceOf(sender_domain, reply_to_domain, url_domains) ==
    ReplyToEvidence(sender_domain, reply_to_domain)
    \o LinkDomainEvidence(sender_domain, url_domains)

\* _domain_from_email(email) if email else None, for a normalised address
DomainOfNormalized(email) ==
    IF email # None THEN _domain_from_email(email) ELSE None

\* lines 134-138
AddressDomain(address) == DomainOfNormalized(_normalize_email(address))

SenderEvidence(payload, urls) ==
    SenderEvidenceOf(AddressDomain(payload.sender), AddressDomain(payload.reply_to),
                     SortedUrlDomains(urls))

\* lines 154-164
SenderFinding(evidence) ==
    IF evidence = <<>> THEN <<>>
    ELSE <<Finding("Sender Domain Mismatch",
                   "Sender information conflicts with link or reply-to domains.",
                   IF Len(evidence) > 1 THEN "high" ELSE "medium",
                   evidence)>>

_detect_sender_anomalies(payload, urls) == SenderFinding(SenderEvidence(payload, urls))

(***************************************************************************)
(* _detect_suspicious_links                                                *)
(***************************************************************************)
\* \d{1,3}
IsDigitGroup(group) ==
    /\ Len(group) \in 1..3
    /\ \A i \in 0..(Len(group) - 1) : At(group, i) \in DigitSet

\* four groups of one to three digits
FourDigitGroups(groups) ==
    Len(groups) = 4 /\ \A g \in 1..4 : IsDigitGroup(groups[g])

\* re.fullmatch(r"(?:\d{1,3}\.){3}\d{1,3}", domain)
_looks_like_ip(domain) == FourDigitGroups(SplitOn(domain, "."))

\* The pattern of line 341 is the raw string (.)\\1{2,}: any character but a
\* line feed, then a backslash, then two or more characters "1".  (It holds
\* no back-reference: in a raw string \\ is an escaped backslash.)
RepeatedCharsMatch(text) ==
    \E i \in 1..(Len(text) - 3) :
        /\ At(text, i - 1) # "\n"
        /\ At(text, i) = "\\"
        /\ At(text, i + 1) = "1"
        /\ At(text, i + 2) = "1"

\* domain.replace(".", "")
WithoutDots(domain) == Join(SplitOn(domain, "."), "")

\* suspicious_patterns (line 337)
TyposquatPatterns == <<"paypal-secure", "micros0ft", "app1e", "verificati0n">>

_has_typosquatting_pattern(domain) ==
    \/ \E i \in 1..Len(TyposquatPatterns) : Contains(domain, TyposquatPatterns[i])
    \/ RepeatedCharsMatch(WithoutDots(domain))

\* lines 206-207
SchemeEvidence(url) ==
    IF StartsWith(Lower(url), "http://")
    THEN <<"URL " \o Quoted(url) \o " is not served over HTTPS.">>
    ELSE <<>>

\* a faulty iteration whose severity is that of the url at hand alone
LinkStepLatest(acc, url, domain) ==
    IF domain = None THEN acc
    ELSE IF _looks_like_ip(domain)
    THEN [severity |-> "high",
          evidence |-> acc.evidence
                       \o <<"URL " \o Quoted(url) \o " uses raw IP address.">>
                       \o SchemeEvidence(url)]
    ELSE IF _has_typosquatting_pattern(domain)
    THEN [severity |-> "high",
          evidence |-> acc.evidence
                       \o <<"Domain " \o Quoted(domain) \o " appears typosquatted.">>
                       \o SchemeEvidence(url)]
    ELSE [severity |-> "medium",
          evidence |-> acc.evidence \o SchemeEvidence(url)]

\* one iteration of the loop of lines 194-207 on the state acc of the loop,
\* for a url of the given domain
LinkStep(acc, url, domain) ==
    IF domain = None THEN acc
    ELSE IF _looks_like_ip(domain)
    THEN [severity |-> "high",
          evidence |-> acc.evidence
                       \o <<"URL " \o Quoted(url) \o " uses raw IP address.">>
                       \o SchemeEvidence(url)]
    ELSE IF _has_typosquatting_pattern(domain)
    THEN [severity |-> "high",
          evidence |-> acc.evidence
                       \o <<"Domain " \o Quoted(domain) \o " appears typosquatted.">>
                       \o SchemeEvidence(url)]
    ELSE [severity |-> acc.severity,
          evidence |-> acc.evidence \o SchemeEvidence(url)]

\* the loop of lines 194-207: the severity and the evidence after the urls
RECURSIVE LinkScan(_, _)
LinkScan(urls, acc) ==
    IF urls = <<>> THEN acc
    ELSE LinkScan(Tail(urls), LinkStep(acc, Head(urls), _domain_from_url(Head(urls))))

\* the number of links above which their number is evidence (line 209)
ManyLinks == 5

\* lines 209-210
CountEvidence(n) ==
    IF n > ManyLinks
    THEN <<"Email contains a high number of links (" \o Str(n) \o ").">>
    ELSE <<>>

\* lines 212-222
LinksFinding(severity, evidence) ==
    IF evidence = <<>> THEN <<>>
    ELSE <<Finding("Suspicious Links",
                   "Potentially malicious URLs detected in message body.",
                   severity,
                   evidence)>>

LinksFindingOf(scan, n) == LinksFinding(scan.severity, scan.evidence \o CountEvidence(n))

_detect_suspicious_links(payload, urls) ==
    IF urls = <<>> THEN <<>>
    ELSE LinksFindingOf(LinkScan(urls, [severity |-> "medium", evidence |-> <<>>]),
                        Len(urls))

(***************************************************************************)
(* _detect_language_anomalies and _estimate_spelling_issues                *)
(***************************************************************************)
COMMON_ENGLISH_WORDS ==
    {"the", "be", "to", "of", "and", "a", "in", "that", "have", "i", "it",
     "for", "not", "on", "with", "he", "as", "you", "do", "at", "this", "but",
     "his", "by", "from", "they", "we", "say", "her", "she", "or", "an",
     "will", "my", "one", "all", "would", "there", "their"}

\* the pairs of COMMON_BIGRAMS, each written as a two-character string
COMMON_BIGRAMS ==
    {"th", "he", "an", "er", "re", "in", "on", "nd", "en", "to", "es", "of"}

\* re.findall(r"[A-Za-z']+", s)
FindWords(s) == Tokens(s, 0, AlphaSet \cup {"'"}, FALSE)

\* re.search(r"(.)\\1\\1", token): a character, then \1\1 literally (the raw
\* string escapes the backslashes, so the pattern holds no back-reference)
EscapedRepeatMatch(token) ==
    \E i \in 1..(Len(token) - 4) :
        At(token, i - 1) # "\n" /\ Slice(token, i, i + 4) = "\\1\\1"

\* sum(1 for bigram in zip(token, token[1:]) if bigram not in COMMON_BIGRAMS)
RareBigrams(token) ==
    Cardinality({i \in 0..(Len(token) - 2) : Slice(token, i, i + 2) \notin COMMON_BIGRAMS})

\* math.ceil(n / 3)
CeilThird(n) == (n + 2) \div 3

\* lines 289-298 for the lower-cased token
UnusualToken(token) ==
    IF Len(token) <= 3 THEN FALSE
    ELSE IF token \in COMMON_ENGLISH_WORDS THEN FALSE
    ELSE IF \E i \in 0..(Len(token) - 1) : At(token, i) \in DigitSet THEN TRUE
    ELSE IF EscapedRepeatMatch(token) THEN TRUE
    ELSE RareBigrams(token) >= Max(2, CeilThird(Len(token)))

looks_unusual(word) == UnusualToken(Lower(word))

\* unusual_count of line 300
UnusualCount(words) == Len(SelectSeq(words, looks_unusual))

\* the float unusual_count / len(words), kept as the fraction it is the
\* quotient of
Quotient(num, den) == [num |-> num, den |-> den]

\* lines 284-285 and 300-301; 0.0 is the fraction 0/1
_estimate_spelling_issues(words) ==
    IF words = <<>> THEN Quotient(0, 1)
    ELSE Quotient(UnusualCount(words), Len(words))

\* the least number of words the detector looks at (line 250)
MinWords == 20

\* lines 258-259; misspell_indicator > 0.2 is unusual_count / len(words) > 1/5
SpellingEvidence(unusual_count, n) ==
    IF 5 * unusual_count > n
    THEN <<"High ratio of uncommon words detected.">> ELSE <<>>

\* lines 260-261
PunctuationEvidence(punctuation_runs) ==
    IF punctuation_runs # 0
    THEN <<"Repeated punctuation suggests informal tone.">> ELSE <<>>

\* lines 262-263
SpacingEvidence(inconsistent_spacing) ==
    IF inconsistent_spacing # 0
    THEN <<"Irregular spacing/padding detected within the body.">> ELSE <<>>

\* the evidence list of lines 257-263
LanguageEvidence(text, words) ==
    SpellingEvidence(UnusualCount(words), Len(words))
    \o PunctuationEvidence(CountRuns(text, 0, {"?", "!", "."}, 3))
    \o SpacingEvidence(CountRuns(text, 0, SpaceSet, 3))

\* a faulty grading that goes up to high when every indicator fired
LanguageFindingGraded(evidence) ==
    IF evidence = <<>> THEN <<>>
    ELSE <<Finding("Grammar & Style",
                   "Writing quality indicators suggest potential social engineering.",
                   IF Len(evidence) = 1 THEN "low"
                   ELSE IF Len(evidence) = 2 THEN "medium" ELSE "high",
                   evidence)>>

\* lines 265-276
LanguageFinding(evidence) ==
    IF evidence = <<>> THEN <<>>
    ELSE <<Finding("Grammar & Style",
                   "Writing quality indicators suggest potential social engineering.",
                   IF Len(evidence) = 1 THEN "low" ELSE "medium",
                   evidence)>>

\* lines 250-276 for the words of the body
LanguageOfWords(text, words) ==
    IF Len(words) < MinWords THEN <<>>
    ELSE LanguageFinding(LanguageEvidence(text, words))

_detect_language_anomalies(payload) ==
    LanguageOfWords(payload.body, FindWords(payload.body))

(***************************************************************************)
(* _build_recommendations                                                  *)
(***************************************************************************)
\* any(f.category == category for f in findings)
HasCategory(findings, category) ==
    \E i \in 1..Len(findings) : findings[i].category = category

\* a faulty default that adds the caution to every list
AlwaysCaution(recommendations) ==
    recommendations \o <<"Email appears lower risk but remain vigilant.">>

\* lines 389-390
OrDefault(recommendations) ==
    IF recommendations = <<>>
    THEN <<"Email appears lower risk but remain vigilant.">>
    ELSE recommendations

\* a faulty builder that puts the advice on the sender before the one on links
SenderAdviceFirst(risk, findings, has_urls) ==
    OrDefault(
        (IF risk = "high"
         THEN <<"Do not interact with the email. Report it to your security team.">>
         ELSE <<>>)
        \o (IF HasCategory(findings, "Sensitive Data Request")
            THEN <<"Never share credentials or personal information via email links.">>
            ELSE <<>>)
        \o (IF HasCategory(findings, "Sender Domain Mismatch")
            THEN <<"Verify the sender through a known, trusted communication channel.">>
            ELSE <<>>)
        \o (IF has_urls
            THEN <<"Hover over links to inspect destinations before clicking.">>
            ELSE <<>>))

_build_recommendations(risk, findings, has_urls) ==
    OrDefault(
        (IF risk = "high"
         THEN <<"Do not interact with the email. Report it to your security team.">>
         ELSE <<>>)
        \o (IF HasCategory(findings, "Sensitive Data Request")
            THEN <<"Never share credentials or personal information via email links.">>
            ELSE <<>>)
        \o (IF has_urls
            THEN <<"Hover over links to inspect destinations before clicking.">>
            ELSE <<>>)
        \o (IF HasCategory(findings, "Sender Domain Mismatch")
            THEN <<"Verify the sender through a known, trusted communication channel.">>
            ELSE <<>>))

\* a faulty order that runs the detector of the links first
DetectAllLinksFirst(payload, urls, seed) ==
    _detect_suspicious_links(payload, urls)
    \o _detect_urgency(payload, seed)
    \o _detect_sensitive_requests(payload, seed)
    \o _detect_sender_anomalies(payload, urls)
    \o _detect_attachment_risk(payload)
    \o _detect_language_anomalies(payload)

\* the six detectors in the order of lines 62-67
DetectAll(payload, urls, seed) ==
    _detect_urgency(payload, seed)
    \o _detect_sensitive_requests(payload, seed)
    \o _detect_sender_anomalies(payload, urls)
    \o _detect_suspicious_links(payload, urls)
    \o _detect_attachment_risk(payload)
    \o _detect_language_anomalies(payload)

(***************************************************************************)
(* The reputation adapter: lookup_urls and _parse_urlscan_response         *)
(***************************************************************************)
\* the URLInsight model (models.py)
URLInsight(url, reputation, status, details, findings) ==
    [url |-> url, reputation |-> reputation, status |-> status,
     details |-> details, findings |-> findings]

\* What one client.get(...) of urlscan.io can come to.  outcome is the httpx
\* exception raised by the request, or "response"; status is the HTTP status;
\* json tells what the body is: "text" (not JSON), "array" (JSON, no object) or
\* "object"; total is the object's "total" (-1: no such key); results holds,
\* for each entry of "results", its verdicts.overall; text is str(exc).
Answer(outcome, status, json, total, results, text) ==
    [outcome |-> outcome, status |-> status, json |-> json, total |-> total,
     results |-> results, text |-> text]

\* verdicts.overall of one result (score -1: no "score" key)
Overall(malicious, score, categories) ==
    [malicious |-> malicious, score |-> score, categories |-> categories]

ConnectFailed == Answer("ConnectError", 0, "text", -1, <<>>, "All connection attempts failed")

ServerError == Answer("response", 500, "text", -1, <<>>, "Server error '500 Internal Server Error'")

NotJson == Answer("response", 200, "text", -1, <<>>, "")

JsonArray == Answer("response", 200, "array", -1, <<>>, "")

NoScans == Answer("response", 200, "object", 0, <<>>, "")

Phishing ==
    Answer("response", 200, "object", 3, <<Overall(TRUE, 100, <<"phishing">>)>>, "")

\* two scans on record, the latest without a malicious verdict
Reviewed ==
    Answer("response", 200, "object", 2, <<Overall(FALSE, 0, <<>>), Overall(TRUE, 90, <<>>)>>, "")

\* the entry of the answers for a url no request was made for
NotAsked == Answer("none", 0, "text", -1, <<>>, "")

\* the answers the collaborator gives in the model
Answers == {ConnectFailed, ServerError, NotJson, JsonArray, NoScans, Phishing, Reviewed}

\* client.get(...) or response.raise_for_status() raises an httpx.HTTPError:
\* a transport error, a timeout, or a response outside 2xx
RaisesHTTPError(answer) ==
    answer.outcome # "response" \/ answer.status \notin 200..299

\* the exception that escapes lines 49-62, "" if none: response.json() raises
\* on a body that is not JSON, payload.get on a JSON value that is no object
EscapingError(answer) ==
    IF RaisesHTTPError(answer) THEN ""
    ELSE IF answer.json = "text" THEN "JSONDecodeError"
    ELSE IF answer.json = "array" THEN "AttributeError"
    ELSE ""

\* the findings list of lines 89-93
VerdictFindings(overall) ==
    (IF overall.categories # <<>>
     THEN <<"Categories: " \o Join(overall.categories, ", ")>> ELSE <<>>)
    \o (IF overall.score # -1
        THEN <<"Verdict score: " \o Str(overall.score)>> ELSE <<>>)

\* a faulty verdict that reports a domain without a malicious verdict as clean
VerdictInsightLenient(url, total, overall) ==
    URLInsight(url,
               IF overall.malicious THEN "block" ELSE "no-data",
               IF overall.malicious THEN "malicious" ELSE "clean",
               "Observed in " \o Str(total) \o " urlscan submission(s).",
               VerdictFindings(overall))

\* lines 82-101 for the verdicts.overall of the latest result
VerdictInsight(url, total, overall) ==
    URLInsight(url,
               IF overall.malicious THEN "block" ELSE "suspicious",
               IF overall.malicious THEN "malicious" ELSE "review",
               "Observed in " \o Str(total) \o " urlscan submission(s).",
               VerdictFindings(overall))

\* results[0] if results else {}, down to verdicts.overall
LatestOverall(results) ==
    IF results # <<>> THEN results[1] ELSE Overall(FALSE, -1, <<>>)

\* lines 68-101 for the value of payload.get("total", 0)
InsightOfTotal(url, total, results) ==
    IF total = 0
    THEN URLInsight(url, "no-data", "clean",
                    "No prior scans found for this domain.", <<>>)
    ELSE VerdictInsight(url, total, LatestOverall(results))

_parse_urlscan_response(url, answer) ==
    InsightOfTotal(url, IF answer.total = -1 THEN 0 ELSE answer.total, answer.results)

\* _domain_from_url of url_reputation.py (lines 104-109)
ReputationDomain(url) == RegistrableDomain(TldExtract(url))

\* the insight of the early return of lines 25-32
UnavailableInsight(url) ==
    URLInsight(url, None, "unavailable",
               "No URLSCAN_API_KEY configured; skipped live reputation lookup.", <<>>)

\* a faulty early return that skips the urls without a domain
KeylessInsightsWithDomain(urls) ==
    SelectSeq([i \in 1..Len(urls) |-> UnavailableInsight(urls[i])],
              LAMBDA insight : ReputationDomain(insight.url) # None)

\* the list returned at lines 25-32
RECURSIVE KeylessInsights(_)
KeylessInsights(urls) ==
    IF urls = <<>> THEN <<>>
    ELSE <<UnavailableInsight(Head(urls))>> \o KeylessInsights(Tail(urls))

\* the insight appended at lines 39-45
UnknownInsight(url) ==
    URLInsight(url, None, "unknown",
               "Unable to extract domain for reputation check.", <<>>)

\* a faulty handler that reports a failed lookup as "unknown" without details
ErrorInsightSilent(url, answer) == URLInsight(url, None, "unknown", "", <<>>)

\* the insight appended at lines 52-58
ErrorInsight(url, answer) ==
    URLInsight(url, None, "error", "urlscan lookup failed: " \o answer.text, <<>>)

\* the insight appended for a url whose request was answered (lines 48-62)
AnsweredInsight(url, answer) ==
    IF RaisesHTTPError(answer) THEN ErrorInsight(url, answer)
    ELSE _parse_urlscan_response(url, answer)

\* a faulty test that takes an unset variable for a key
KeyMissingOnlyEmpty(key) == key = ""

\* not api_key (line 24)
KeyMissing(key) == key = None \/ key = ""

(***************************************************************************)
(* The standalone engine: PhishingDetector (phishing_detector.py)          *)
(***************************************************************************)
URGENCY_KEYWORDS ==
    <<"urgent", "immediately", "action required", "verify now", "suspended",
      "locked", "expire", "expires", "expiring", "limited time", "act now",
      "confirm immediately", "update required", "security alert", "unusual activity",
      "click here now", "respond now", "within 24 hours", "within 48 hours",
      "your account will be closed", "final notice", "last warning", "last chance">>

SENSITIVE_INFO_KEYWORDS ==
    <<"social security", "ssn", "password", "credit card", "bank account",
      "pin", "cvv", "routing number", "account number", "date of birth",
      "mother's maiden name", "verify your identity", "confirm your password",
      "update payment", "payment information", "billing information",
      "tax id", "driver's license", "passport number">>

SUSPICIOUS_TLDS ==
    <<".xyz", ".top", ".work", ".click", ".link", ".download", ".gq", ".tk", ".ml">>

\* the dict of the legitimate domains by company, in insertion order
LEGITIMATE_DOMAINS ==
    <<[company |-> "paypal", domains |-> <<"paypal.com">>],
      [company |-> "amazon", domains |-> <<"amazon.com">>],
      [company |-> "microsoft", domains |-> <<"microsoft.com", "outlook.com", "live.com">>],
      [company |-> "apple", domains |-> <<"apple.com", "icloud.com">>],
      [company |-> "google", domains |-> <<"google.com", "gmail.com">>],
      [company |-> "bank", domains |-> <<"bankofamerica.com", "chase.com",
                                         "wellsfargo.com", "citibank.com">>]>>

\* the empty dict
EmptyDict == <<>>

\* result.get('detected') as a truth value
GetDetected(result) == "detected" \in DOMAIN result /\ result.detected

\* 'high' from high_from counted items on, 'medium' for fewer but some, else
\* 'low' (lines 124, 172, 191, 227 and 363)
SeverityOf(count, high_from) ==
    IF count >= high_from THEN "high" ELSE IF count > 0 THEN "medium" ELSE "low"

\* the keywords that occur in a or in b, in the order of the list
KeywordsIn(keywords, a, b) ==
    SelectSeq(keywords, LAMBDA keyword : Contains(a, keyword) \/ Contains(b, keyword))

\* sum(1 for c in content if c.isupper())
UpperCount(content) ==
    Cardinality({i \in 0..(Len(content) - 1) : At(content, i) \in CasedUpperSet})

\* caps_ratio > 0.2
ExcessiveCapsRatio(content) == 5 * UpperCount(content) > Max(Len(content), 1)

\* line 114
ExclamationCount(content, subject) ==
    CountChar(content, "!") + (IF Truthy(subject) THEN CountChar(subject, "!") ELSE 0)

\* the dict returned at lines 119-125
UrgencyResult(found_urgency, exclamation_count, excessive_caps) ==
    [detected |-> found_urgency # <<>> \/ exclamation_count > 3 \/ excessive_caps,
     urgency_keywords |-> found_urgency,
     excessive_exclamation |-> exclamation_count > 3,
     excessive_caps |-> excessive_caps,
     severity |-> SeverityOf(Len(found_urgency), 3)]

_check_urgency(content, subject) ==
    UrgencyResult(KeywordsIn(URGENCY_KEYWORDS, Lower(content),
                             IF Truthy(subject) THEN Lower(subject) ELSE ""),
                  ExclamationCount(content, subject),
                  ExcessiveCapsRatio(content))

\* the lowest index of p in s from index i on, or -1
FindFrom(s, p, i) == Least({j \in i..(Len(s) - Len(p)) : OccursAt(s, p, j)})

\* lines 146-149
TldIssue(suffix) ==
    IF suffix # "" /\ InList(SUSPICIOUS_TLDS, "." \o suffix)
    THEN <<"Suspicious TLD: ." \o suffix>>
    ELSE <<>>

\* lines 152-154
RECURSIVE SpoofingIssues(_, _)
SpoofingIssues(domain, companies) ==
    IF companies = <<>> THEN <<>>
    ELSE (IF /\ Contains(domain, Head(companies).company)
             /\ \A i \in 1..Len(Head(companies).domains) :
                   ~Contains(domain, Head(companies).domains[i])
          THEN <<"Possible " \o Head(companies).company \o " domain spoofing">>
          ELSE <<>>)
         \o SpoofingIssues(domain, Tail(companies))

\* lines 157-158
SubdomainIssue(domain) ==
    IF CountChar(domain, ".") > 3
    THEN <<"Excessive subdomains (possible obfuscation)">>
    ELSE <<>>

\* re.search(r'\d{3,}', domain)
ThreeDigits(domain) ==
    \E i \in 0..(Len(domain) - 3) : \A k \in 0..2 : At(domain, i + k) \in DigitSet

\* lines 161-162
NumbersIssue(domain) ==
    IF ThreeDigits(domain) THEN <<"Domain contains multiple numbers">> ELSE <<>>

common_misspellings == <<"g00gle", "micros0ft", "amazn", "paypa1">>

\* lines 165-167
MisspellingIssue(domain) ==
    IF \E i \in 1..Len(common_misspellings) : Contains(domain, common_misspellings[i])
    THEN <<"Likely domain name misspelling">>
    ELSE <<>>

\* the dict returned at lines 168-173
SenderResult(issues, domain) ==
    [detected |-> issues # <<>>, issues |-> issues, domain |-> domain,
     severity |-> IF Len(issues) >= 2 THEN "high"
                  ELSE IF Len(issues) = 1 THEN "medium" ELSE "low"]

\* lines 145-173 for the domain that follows the first "@"
SenderIssues(domain) ==
    SenderResult(TldIssue(TldExtract(domain).suffix)
                 \o SpoofingIssues(domain, LEGITIMATE_DOMAINS)
                 \o SubdomainIssue(domain)
                 \o NumbersIssue(domain)
                 \o MisspellingIssue(domain),
                 domain)

_analyze_sender(sender) ==
    IF ~Truthy(sender) THEN [detected |-> FALSE]
    ELSE IF ~Contains(sender, "@")
    THEN [detected |-> TRUE, issues |-> <<"Invalid email format">>, severity |-> "high"]
    ELSE SenderIssues(Slice(sender, Find(sender, "@") + 1, Len(sender)))

\* the alternatives of the two groups of the pattern of line 186
FormVerbs == <<"enter", "provide", "submit", "input", "type">>

FormNouns == <<"password", "card", "ssn", "pin">>

\* re.search(r'(enter|provide|submit|input|type).{0,30}(password|card|ssn|pin)',
\* low): a verb, at most 30 characters other than a line feed, a noun
HasFormFields(low) ==
    \E v \in 1..Len(FormVerbs) : \E i \in 0..(Len(low) - Len(FormVerbs[v])) :
        /\ OccursAt(low, FormVerbs[v], i)
        /\ \E gap \in 0..Min(30, RunNotIn(low, i + Len(FormVerbs[v]), {"\n"})) :
              \E n \in 1..Len(FormNouns) :
                  OccursAt(low, FormNouns[n], i + Len(FormVerbs[v]) + gap)

\* the dict returned at lines 188-193
SensitiveResult(found_requests, has_form_fields) ==
    [detected |-> found_requests # <<>> \/ has_form_fields,
     requested_info |-> found_requests,
     has_form_fields |-> has_form_fields,
     severity |-> SeverityOf(Len(found_requests), 2)]

SensitiveOfLower(content_lower) ==
    SensitiveResult(KeywordsIn(SENSITIVE_INFO_KEYWORDS, content_lower, ""),
                    HasFormFields(content_lower))

_check_sensitive_info(content) == SensitiveOfLower(Lower(content))

\* the characters of the class of url_pattern: letters, digits, the range
\* [$-_], "@", ".", "&", "+", "!", "*", "\", "(", ")", "," and the percent
\* escapes, whose characters the range holds
PdUrlSet ==
    AlphaSet \cup DigitSet
    \cup Chars("$%&'()*+,-./:;<=>?@[\\]^_") \cup {"!"}

\* the length of the match of http[s]?:// at index i, 0 for no match
PdSchemeLen(s, i) ==
    IF OccursAt(s, "https://", i) THEN 8
    ELSE IF OccursAt(s, "http://", i) THEN 7
    ELSE 0

\* the end of the match of url_pattern at index i, -1 for no match
PdUrlEnd(s, i) ==
    IF PdSchemeLen(s, i) > 0 /\ RunIn(s, i + PdSchemeLen(s, i), PdUrlSet) > 0
    THEN i + PdSchemeLen(s, i) + RunIn(s, i + PdSchemeLen(s, i), PdUrlSet)
    ELSE -1

\* re.findall(url_pattern, s) from index i on
RECURSIVE PdFindUrls(_, _)
PdFindUrls(s, i) ==
    LET start == Least({j \in i..(Len(s) - 8) : PdUrlEnd(s, j) # -1})
    IN  IF start = -1 THEN <<>>
        ELSE <<Slice(s, start, PdUrlEnd(s, start))>> \o PdFindUrls(s, PdUrlEnd(s, start))

\* BeautifulSoup(s, 'html.parser').get_text() from index i on, for markup
\* whose tags are written out in full and that holds no character reference:
\* the text outside the tags
RECURSIVE HtmlText(_, _)
HtmlText(s, i) ==
    LET open == FindFrom(s, "<", i)
        close == IF open = -1 THEN -1 ELSE FindFrom(s, ">", open)
    IN  IF close = -1 THEN Slice(s, i, Len(s))
        ELSE Slice(s, i, open) \o HtmlText(s, close + 1)

\* soup.find_all('a', href=True) from index i on, for anchors written
\* <a href="...">...</a>: the href and the text of each
RECURSIVE Anchors(_, _)
Anchors(s, i) ==
    LET open == FindFrom(s, "<a href=\"", i)
        quote == IF open = -1 THEN -1 ELSE FindFrom(s, "\"", open + 9)
        gt == IF quote = -1 THEN -1 ELSE FindFrom(s, ">", quote)
        end == IF gt = -1 THEN -1 ELSE FindFrom(s, "</a>", gt)
    IN  IF end = -1 THEN <<>>
        ELSE <<[href |-> Slice(s, open + 9, quote),
                text |-> HtmlText(Slice(s, gt + 1, end), 0)]>>
             \o Anchors(s, end + 4)

\* urlparse(url).netloc of a url with a scheme: from the "//" to the first
\* "/", "?" or "#"
Netloc(url) ==
    IF Find(url, "//") = -1 THEN ""
    ELSE AuthorityOf(Slice(url, Find(url, "//") + 2, Len(url)))

\* urlparse raises ValueError for a netloc with a square bracket (IPv6
\* literals are not among the inputs)
UrlparseRaises(url) == Contains(Netloc(url), "[") \/ Contains(Netloc(url), "]")

\* re.match(r'\d{1,3}\.\d{1,3}\.\d{1,3}\.\d{1,3}', domain): the domain starts
\* with three groups of 1 to 3 digits, each followed by a dot, and a digit
RECURSIVE StartsWithGroups(_, _, _)
StartsWithGroups(domain, i, groups) ==
    LET n == RunIn(domain, i, DigitSet)
    IN  IF groups = 0 THEN n >= 1
        ELSE \E k \in 1..Min(n, 3) :
                /\ At(domain, i + k) = "."
                /\ StartsWithGroups(domain, i + k + 1, groups - 1)

StartsWithIp(domain) == StartsWithGroups(domain, 0, 3)

shorteners == <<"bit.ly", "tinyurl", "goo.gl", "t.co", "ow.ly", "is.gd">>

\* lines 238-263 for the netloc of the url
UrlIssues(url, domain) ==
    (IF StartsWithIp(domain) THEN <<"Uses IP address instead of domain name">> ELSE <<>>)
    \o TldIssue(TldExtract(domain).suffix)
    \o (IF Contains(url, "@")
        THEN <<"Contains @ symbol (possible redirect trick)">> ELSE <<>>)
    \o (IF Len(url) > 200 THEN <<"Unusually long URL">> ELSE <<>>)
    \o (IF \E i \in 1..Len(shorteners) : Contains(domain, shorteners[i])
        THEN <<"Uses URL shortener (hides destination)">> ELSE <<>>)
    \o (IF CountChar(domain, ".") > 3 THEN <<"Excessive subdomains">> ELSE <<>>)

_check_url_suspicious(url) ==
    IF UrlparseRaises(url) THEN <<"Malformed URL">> ELSE UrlIssues(url, Netloc(url))

\* list(set(xs)): the distinct members in the order of the hash seed
ListOfSet(xs, seed) ==
    IF xs = <<>> THEN <<>> ELSE IterOrder(Sorted(FromKeys(xs, <<>>)), seed)

\* lines 208-212
RECURSIVE SuspiciousUrls(_)
SuspiciousUrls(all_urls) ==
    IF all_urls = <<>> THEN <<>>
    ELSE (IF _check_url_suspicious(Head(all_urls)) # <<>>
          THEN <<[url |-> Head(all_urls), issues |-> _check_url_suspicious(Head(all_urls))]>>
          ELSE <<>>)
         \o SuspiciousUrls(Tail(all_urls))

\* one iteration of the loop of lines 216-220
Mismatch(anchor) ==
    IF /\ StartsWith(Strip(anchor.text), "http")
       /\ StartsWith(anchor.href, "http")
       /\ Strip(anchor.text) # anchor.href
    THEN <<[display |-> Strip(anchor.text), actual |-> anchor.href]>>
    ELSE <<>>

RECURSIVE LinkMismatches(_)
LinkMismatches(anchors) ==
    IF anchors = <<>> THEN <<>>
    ELSE Mismatch(Head(anchors)) \o LinkMismatches(Tail(anchors))

\* the dict returned at lines 222-228
LinksResult(all_urls, suspicious_urls, link_mismatches) ==
    [detected |-> suspicious_urls # <<>> \/ link_mismatches # <<>>,
     total_links |-> Len(all_urls),
     suspicious_urls |-> suspicious_urls,
     link_mismatches |-> link_mismatches,
     severity |-> SeverityOf(Len(suspicious_urls), 2)]

Hrefs(anchors) == [i \in 1..Len(anchors) |-> anchors[i].href]

LinksOf(all_urls, anchors) ==
    LinksResult(all_urls, SuspiciousUrls(all_urls), LinkMismatches(anchors))

LinksOfAnchors(content, anchors, seed) ==
    LinksOf(ListOfSet(PdFindUrls(content, 0) \o Hrefs(anchors), seed), anchors)

_analyze_links(content, seed) == LinksOfAnchors(content, Anchors(content, 0), seed)

\* re.search(r'[.,!?][A-Z]', text)
PunctuationThenCapital(text) ==
    \E i \in 0..(Len(text) - 2) :
        At(text, i) \in {".", ",", "!", "?"} /\ At(text, i + 1) \in UpperSet

\* re.split(r'[.!?]\s+', text) from index i on
RECURSIVE Sentences(_, _)
Sentences(text, i) ==
    LET at == Least({j \in i..(Len(text) - 2) :
                        At(text, j) \in {".", "!", "?"} /\ At(text, j + 1) \in SpaceSet})
    IN  IF at = -1 THEN <<Slice(text, i, Len(text))>>
        ELSE <<Slice(text, i, at)>>
             \o Sentences(text, at + 1 + RunIn(text, at + 1, SpaceSet))

\* lines 333-336: more than 30% of the sentences start with a lower-case letter
InconsistentCapitalization(sentences) ==
    10 * Len(SelectSeq(sentences, LAMBDA s : At(s, 0) \in LowerSet)) > 3 * Len(sentences)

\* lines 340-343: the first word longer than 3 characters that follows itself
RepeatedWordIssue(words) ==
    IF \E i \in 1..(Len(words) - 1) : words[i] = words[i + 1] /\ Len(words[i]) > 3
    THEN <<"Repeated word: \""
           \o words[CHOOSE i \in 1..(Len(words) - 1) :
                       /\ words[i] = words[i + 1] /\ Len(words[i]) > 3
                       /\ \A j \in 1..(i - 1) :
                             ~(words[j] = words[j + 1] /\ Len(words[j]) > 3)]
           \o "\"">>
    ELSE <<>>

\* the outcomes of langdetect's detect on a text that is not blank: a
\* language code, or LangDetectException
Languages == {"en", "fr", "LangDetectException"}

english_companies == <<"paypal", "amazon", "microsoft", "apple", "bank">>

\* lines 350-358, lang being what detect returns or raises for the text
LanguageIssue(content_lower, text, lang) ==
    IF /\ Strip(text) # ""
       /\ lang \notin {"en", "unknown", "LangDetectException"}
       /\ \E i \in 1..Len(english_companies) : Contains(content_lower, english_companies[i])
    THEN <<"Language mismatch (detected: " \o lang \o ", expected: English)">>
    ELSE <<>>

\* the dict returned at lines 360-364
GrammarResult(issues) ==
    [detected |-> issues # <<>>, issues |-> issues,
     severity |-> IF Len(issues) >= 3 THEN "high"
                  ELSE IF Len(issues) >= 1 THEN "medium" ELSE "low"]

\* lines 323-358 for the text of the content
GrammarOfText(content, text, lang) ==
    GrammarResult(
        (IF CountRuns(text, 0, SpaceSet, 3) > 0
         THEN <<"Excessive whitespace found">> ELSE <<>>)
        \o (IF PunctuationThenCapital(text)
            THEN <<"Missing spaces after punctuation">> ELSE <<>>)
        \o (IF InconsistentCapitalization(Sentences(text, 0))
            THEN <<"Inconsistent capitalization">> ELSE <<>>)
        \o RepeatedWordIssue(Tokens(Lower(text), 0, SpaceSet, TRUE))
        \o (IF CountRuns(text, 0, LowerSet, 15) > 0
            THEN <<"Unusually long words without spaces">> ELSE <<>>)
        \o LanguageIssue(Lower(content), text, lang))

_check_grammar_issues(content, lang) == GrammarOfText(content, HtmlText(content, 0), lang)

\* a faulty scale that gives 35 points to a high severity
PointsHigh35(detected, severity, high, medium, low) ==
    IF ~detected THEN 0
    ELSE IF severity = "high" THEN 35
    ELSE IF severity = "medium" THEN medium
    ELSE low

\* the points one component adds to the score (lines 379-425)
Points(detected, severity, high, medium, low) ==
    IF ~detected THEN 0
    ELSE IF severity = "high" THEN high
    ELSE IF severity = "medium" THEN medium
    ELSE low

\* the points of a component that may be the empty dict
PointsOf(result, high, medium, low) ==
    IF GetDetected(result) THEN Points(TRUE, result.severity, high, medium, low) ELSE 0

\* lines 428-433
PdRiskLevel(score) ==
    IF score >= 60 THEN "High" ELSE IF score >= 30 THEN "Medium" ELSE "Low"

\* the score of lines 376-425
PdScore(results) ==
    PointsOf(results.urgency_tactics, 20, 12, 5)
    + PointsOf(results.sender_analysis, 25, 15, 8)
    + PointsOf(results.sensitive_info_requests, 25, 15, 8)
    + PointsOf(results.link_analysis, 20, 12, 6)
    + PointsOf(results.grammar_issues, 10, 6, 3)

ScoreAndLevel(score) == [risk_score |-> score, risk_level |-> PdRiskLevel(score)]

_calculate_risk_score(results) == ScoreAndLevel(PdScore(results))

\* a pictograph of the explanation, written by its short name
Sign(name) == ":" \o name \o ":"

\* lines 442-475: the paragraphs of the components that detected something
Explanations(results) ==
    (IF results.urgency_tactics.detected
     THEN <<Sign("warning") \o " **Urgency Tactics Detected**: Found "
            \o Str(Len(results.urgency_tactics.urgency_keywords))
            \o " urgency-creating phrases that pressure recipients to act quickly.">>
     ELSE <<>>)
    \o (IF GetDetected(results.sender_analysis)
        THEN <<Sign("rotating_light") \o " **Suspicious Sender**: "
               \o Str(Len(results.sender_analysis.issues)) \o " issue(s) detected - "
               \o Join(Take(results.sender_analysis.issues, 2), ", ")>>
        ELSE <<>>)
    \o (IF results.sensitive_info_requests.detected
        THEN <<Sign("closed_lock_with_key") \o " **Requests Sensitive Information**: Asks for "
               \o Str(Len(results.sensitive_info_requests.requested_info))
               \o " type(s) of sensitive data. Legitimate companies rarely request this via email.">>
        ELSE <<>>)
    \o (IF results.link_analysis.detected
        THEN <<Sign("link") \o " **Suspicious Links**: "
               \o Str(Len(results.link_analysis.suspicious_urls))
               \o " suspicious URL(s) detected. These may lead to malicious websites.">>
        ELSE <<>>)
    \o (IF results.grammar_issues.detected
        THEN <<Sign("memo") \o " **Grammar Issues**: "
               \o Str(Len(results.grammar_issues.issues))
               \o " language/formatting issue(s) found. Professional emails are typically well-written.">>
        ELSE <<>>)

\* lines 477-480
ExplanationOf(explanations) ==
    IF explanations = <<>>
    THEN Sign("white_check_mark") \o " No major phishing indicators detected in this email."
    ELSE Join(explanations, "\n\n")

_generate_explanation(results) == ExplanationOf(Explanations(results))

\* the dict of lines 86-93
ComponentResults(urgency_tactics, sender_analysis, sensitive_info_requests,
                 link_analysis, grammar_issues) ==
    [urgency_tactics |-> urgency_tactics,
     sender_analysis |-> sender_analysis,
     sensitive_info_requests |-> sensitive_info_requests,
     link_analysis |-> link_analysis,
     grammar_issues |-> grammar_issues,
     risk_indicators |-> <<>>]

\* lines 96-99: the dict with the three keys added
WithRisk(results, risk, explanation) ==
    [urgency_tactics |-> results.urgency_tactics,
     sender_analysis |-> results.sender_analysis,
     sensitive_info_requests |-> results.sensitive_info_requests,
     link_analysis |-> results.link_analysis,
     grammar_issues |-> results.grammar_issues,
     risk_indicators |-> results.risk_indicators,
     risk_score |-> risk.risk_score,
     risk_level |-> risk.risk_level,
     explanation |-> explanation]

Assessed(results) ==
    WithRisk(results, _calculate_risk_score(results), _generate_explanation(results))

\* PhishingDetector.analyze_email(email_content, sender, subject), lang being
\* the answer of langdetect and seed the hash seed of the process
PhishingDetector_analyze_email(email_content, sender, subject, lang, seed) ==
    Assessed(ComponentResults(
        _check_urgency(email_content, subject),
        IF Truthy(sender) THEN _analyze_sender(sender) ELSE EmptyDict,
        _check_sensitive_info(email_content),
        _analyze_links(email_content, seed),
        _check_grammar_issues(email_content, lang)))

(***************************************************************************)
(* Requests                                                                *)
(***************************************************************************)
\* the EmailAnalysisRequest model (models.py); sender_name and headers, which
\* the engine never reads, are left out
Request(subject, body, sender, reply_to, urls, attachments) ==
    [subject |-> subject, body |-> body, sender |-> sender,
     reply_to |-> reply_to, urls |-> urls, attachments |-> attachments]

Requests ==
    { Request("Lunch", "See you at noon", None, None, <<>>, <<"invoice.pdf">>),
      Request("Invoice", "Please find the invoice attached", "billing@a.com", None,
              <<>>, <<"invoice.exe">>),
      Request("Files", "Three files for you", None, None, <<>>,
              <<"Report.PDF", "SETUP.EXE", "notes.txt", "run.Js", "exe">>),
      Request("Link", "open http://a.com/x now", "bob@a.com", None,
              <<"http://a.com/x", "http://a.com/x">>, <<>>),
      Request("Link", "Visit http://a.com/x.", "bob@a.com", None,
              <<"http://a.com/x">>, <<>>),
      Request("Portal", "go to www.b.org/login today", "Help Desk <help@b.org>", None,
              <<"https://www.b.org/login">>, <<>>),
      Request("Reminder",
              "Send your password to the help desk before Friday or you lose access, then add your ssn",
              None, None, <<>>, <<>>),
      Request("URGENT!!", "act now!! confirm your password at http://1.2.3.4/a",
              "it@a.com", "it@b.org", <<>>, <<"update.exe">>),
      Request("Mirror", "two mirrors", "bob@a.com", None,
              <<"", "https://b.org/y">>, <<>>),
      Request("Docs", "the docs moved", None, None,
              <<"https://a.com/docs", "https://b.org/docs">>, <<>>) }

\* a body of 45 letters U+0130 followed by a keyword
DottedRequest ==
    Request("Notice", "||||||||||||||||||||||||||||||||||||||||||||| password",
            None, None, <<>>, <<>>)

\* the walk-through of the README: urgency, a request for credentials, a
\* plain-HTTP link to a look-alike domain and a look-alike sender
PayPalRequest ==
    Request("URGENT: Verify Your PayPal Account NOW!",
            "Act now!! please confirm your password and social security number at http://paypa1-secure.xyz/verify",
            "security@paypa1-alert.xyz", None, <<>>, <<>>)

\* the signals of urgency stand in the subject only
SubjectOnlyRequest ==
    Request("WIRE FUNDS TODAY NOW!!", "see attached", None, None, <<>>, <<>>)

\* a look-alike sender, no reply-to address and no url
SenderOnlyRequest ==
    Request("Hi", "hello there", "security@paypa1-alert.xyz", None, <<>>, <<>>)

\* a request on which each of the six detectors fires
SixFindingsRequest ==
    Request("URGENT!!",
            "urgent!!! we need you to send your password to the help desk at http://1.2.3.4/a or you will not be able to log in on monday",
            "it@a.com", "it@b.org", <<>>, <<"update.exe">>)

\* the sender writes from a subdomain of the domain the link points to
SubdomainSenderRequest ==
    Request("Team", "see https://www.example.com/ today", "user@mail.example.com",
            None, <<>>, <<>>)

\* requests analysed once, without a reputation key
Scenarios ==
    { DottedRequest, PayPalRequest, SubjectOnlyRequest, SenderOnlyRequest,
      SixFindingsRequest, SubdomainSenderRequest,
      Request("Team", "write back", "user@mail.example.com", "User <user@example.com>",
              <<>>, <<>>),
      Request("Team", "see https://www.example.com/ today", "bob", None, <<>>, <<>>),
      Request("Hello", "see you at noon", None, None, <<>>, <<>>),
      Request("Notes", "the notes are at https://a.com/notes", None, None, <<>>, <<>>),
      Request("Minutes", "the minutes are at https://a.com/minutes and www.b.org/notes",
              "bob@a.com", None, <<>>, <<>>),
      Request("Mirrors", "also see https://b.org/y today", None, None,
              <<"https://a.com/docs">>, <<"notes.txt">>),
      Request("Four", "four mirrors", "Ann <ann@e.com>", None,
              <<"https://d.io/1", "https://c.net/2", "https://b.org/3", "https://a.com/4">>,
              <<>>),
      Request("Reply", "write back", "ann@e.com", "ann@f.org", <<>>, <<>>),
      Request("Reply", "write back", None, "ann@f.org", <<"https://a.com/x">>, <<>>),
      Request("Reply", "write back to https://e.com/x", "ann@e.com", "Ann <ann@E.COM>",
              <<>>, <<>>),
      Request("Local", "open localhost", "ann@e.com", None, <<"https://localhost/x">>,
              <<>>),
      Request("Offer", "This is a limited time offer", None, None, <<>>, <<>>),
      Request("Offer", "BUY THESE GOOD SHOES", None, None, <<>>, <<>>),
      Request("Offer", "BUY the GOOD SHOES today", None, None, <<>>, <<>>),
      Request("Offer", "you won!! Claim it", None, None, <<>>, <<>>),
      Request("Offer", "URGENT: CLAIM YOUR PRIZE TODAY", None, None, <<>>, <<>>),
      Request("Offer", "act now, asap!!! DONT WAIT LONGER", None, None, <<>>, <<>>) }

(***************************************************************************)
(* State                                                                   *)
(***************************************************************************)
VARIABLES
    call,       \* the entry point exercised
    payload,    \* the request both analyses are given
    seed,       \* seed[r]: the str hash seed of the process that runs analysis r
    api_key,    \* api_key[r]: URLSCAN_API_KEY in the environment of analysis r
    pc,         \* pc[r]: where analysis r stands in analyze_email
    urls,       \* urls[r]: the local urls of analyze_email
    findings,   \* findings[r]: the local findings
    scored,     \* scored[r]: the (score, risk) pair of line 69
    insights,   \* insights[r]: the list lookup_urls builds, then url_insights
    answers,    \* answers[r]: what the collaborator answered, url by url
    queries,    \* queries[r]: the domains asked of the collaborator, in order
    raised,     \* raised[r]: the exception that ended analysis r, "" if none
    response,   \* response[r]: <<the EmailAnalysisResponse returned>>, else <<>>
    sf_arg,     \* the argument of a direct call of _score_findings
    sf_ret,     \* <<its result>> once it returned, else <<>>
    http_req,   \* the JSON object posted to /api/analyze, field by field
    http_resp,  \* <<the status and the body of the HTTP response>>, else <<>>
    engine_calls, \* the bodies the API layer handed to an engine, in order
    pd_arg,     \* the arguments of a direct call of PhishingDetector.analyze_email
    pd_ret,     \* <<its result>> once it returned, else <<>>
    fn_arg,     \* the arguments of a direct call of a helper of detector.py
    fn_ret,     \* <<its result>> once it returned, else <<>>
    loop        \* the locals of a direct call of _detect_suspicious_links

\* the variables of the direct calls of the helpers
helper_vars == <<fn_arg, fn_ret, loop>>

\* the variables of the API layer, of the standalone engine and of the helpers
api_vars == <<http_req, http_resp, engine_calls, pd_arg, pd_ret, helper_vars>>

vars == <<call, payload, seed, api_key, pc, urls, findings, scored, insights,
          answers, queries, raised, response, sf_arg, sf_ret, api_vars>>

\* the two analyses that are compared
Runs == {1, 2}

\* the number of hash seeds a process may run under
NSeeds == 2

\* the longest finding list given to _score_findings directly
MaxFindings == 4

\* the environment values of URLSCAN_API_KEY
ApiKeys == {None, "secret"}

\* a finding of the given severity, for the direct calls of _score_findings
SomeFinding(severity) == Finding("Suspicious Links", "", severity, <<>>)

FindingLists ==
    UNION {{[i \in 1..n |-> SomeFinding(sev[i])] : sev \in [1..n -> Severities]}
           : n \in 0..MaxFindings}

NoRequest == Request("", "", None, None, <<>>, <<>>)

NoScore == [score |-> 0, risk |-> "low"]

InitLocals ==
    /\ urls = [r \in Runs |-> <<>>]
    /\ findings = [r \in Runs |-> <<>>]
    /\ scored = [r \in Runs |-> NoScore]
    /\ insights = [r \in Runs |-> <<>>]
    /\ answers = [r \in Runs |-> <<>>]
    /\ queries = [r \in Runs |-> <<>>]
    /\ raised = [r \in Runs |-> ""]
    /\ response = [r \in Runs |-> <<>>]
    /\ sf_ret = <<>>

\* a key that the posted JSON object does not hold
Missing == "<missing>"

NoPost == [subject |-> Missing, body |-> Missing, sender |-> Missing]

NoPdCall == [email_content |-> "", sender |-> None, subject |-> None, lang |-> "en"]

\* no helper is called directly
NoArg == "<no argument>"

\* the locals of _detect_suspicious_links: at tells where the call stands, i
\* the number of urls the loop of line 194 has been through
Locals(at, i, severity, evidence) ==
    [at |-> at, i |-> i, severity |-> severity, evidence |-> evidence]

NoLoop == Locals("idle", 0, "medium", <<>>)

InitApi ==
    /\ http_resp = <<>>
    /\ engine_calls = <<>>
    /\ pd_ret = <<>>
    /\ fn_ret = <<>>

\* the direct calls of the helpers are not made
InitHelpers == fn_arg = NoArg /\ loop = NoLoop

\* two analyses of one request, each in a process of its own
InitAnalyze ==
    /\ call = "analyze_email"
    /\ payload \in Requests
    /\ seed \in [Runs -> 1..NSeeds]
    /\ api_key \in [Runs -> ApiKeys]
    /\ pc = [r \in Runs |-> "start"]
    /\ sf_arg = <<>>
    /\ InitLocals
    /\ InitApi /\ InitHelpers /\ http_req = NoPost /\ pd_arg = NoPdCall

\* a direct call of _score_findings on any list of findings
InitScore ==
    /\ call = "_score_findings"
    /\ payload = NoRequest
    /\ seed = [r \in Runs |-> 1]
    /\ api_key = [r \in Runs |-> None]
    /\ pc = [r \in Runs |-> "idle"]
    /\ sf_arg \in FindingLists
    /\ InitLocals
    /\ InitApi /\ InitHelpers /\ http_req = NoPost /\ pd_arg = NoPdCall

\* one analysis of a scenario, without a reputation key
InitScenario ==
    /\ call = "analyze_email"
    /\ payload \in Scenarios
    /\ \E s \in 1..NSeeds : seed = [r \in Runs |-> s]
    /\ api_key = [r \in Runs |-> None]
    /\ pc = [r \in Runs |-> IF r = 1 THEN "start" ELSE "idle"]
    /\ sf_arg = <<>>
    /\ InitLocals
    /\ InitApi /\ InitHelpers /\ http_req = NoPost /\ pd_arg = NoPdCall

\* the email contents given to the standalone engine
PdContents ==
    { "",
      "Hello, see you at noon.",
      "urgent: act now!   immediately send password and ssn to http://evil.xyz/a or http://1.2.3.4/b .Thanks",
      "Please enter your card number",
      "Hurry!!!! Win now",
      "<a href=\"https://a.com/x\">https://b.org/y</a>",
      "YOUR ACCOUNT IS LOCKED",
      "Votre compte paypal est suspendu",
      "|STANBUL office: the the password" }

PdSenders ==
    {None, "", "bob", "bob@a.com", "security@paypa1-alert.xyz", "it@mail2024.example.com",
     "team@maiiil.com"}

PdSubjects == {None, "", "URGENT: final notice!!"}

\* a direct call of PhishingDetector.analyze_email
InitPd ==
    /\ call = "PhishingDetector.analyze_email"
    /\ pd_arg \in [email_content : PdContents, sender : PdSenders,
                   subject : PdSubjects, lang : Languages]
    /\ payload = NoRequest
    /\ \E s \in 1..NSeeds : seed = [r \in Runs |-> s]
    /\ api_key = [r \in Runs |-> None]
    /\ pc = [r \in Runs |-> "idle"]
    /\ sf_arg = <<>>
    /\ InitLocals
    /\ InitApi /\ InitHelpers /\ http_req = NoPost

\* the two API entry points
FastAPI == "FastAPI POST /api/analyze"

Flask == "Flask POST /api/analyze"

\* the JSON objects posted: the body is the key "body" of the FastAPI
\* application and the key "email_content" of the Flask application; None
\* is the JSON null
Posts ==
    [subject : {Missing, "", "Hi"},
     body : {Missing, None, "", "  \n", "hello there", "urgent: enter your password"},
     sender : {Missing, None, "bob@a.com"}]

\* a request posted to one of the two applications
InitHttp ==
    /\ call \in {FastAPI, Flask}
    /\ http_req \in Posts
    /\ payload = NoRequest
    /\ seed = [r \in Runs |-> 1]
    /\ api_key = [r \in Runs |-> None]
    /\ pc = [r \in Runs |-> "idle"]
    /\ sf_arg = <<>>
    /\ InitLocals
    /\ InitApi /\ InitHelpers /\ pd_arg = NoPdCall

\* the other modes make no direct call of a helper
InitIdle ==
    /\ payload = NoRequest
    /\ seed = [r \in Runs |-> 1]
    /\ api_key = [r \in Runs |-> None]
    /\ pc = [r \in Runs |-> "idle"]
    /\ sf_arg = <<>>
    /\ InitLocals
    /\ InitApi /\ http_req = NoPost /\ pd_arg = NoPdCall

\* the urls of the lists given to _detect_suspicious_links
LinkUrls ==
    {"", "https://a.com/x", "http://a.com/x", "HTTP://B.ORG/y", "b.org/login",
     "ftp://b.org/f", "http://1.2.3.4/a", "https://10.0.0.1/",
     "https://paypal-secure.com/login", "https://gooogle.com/"}

\* the longest of these lists
MaxUrls == 3

\* a list of six links, none of which is evidence by itself
SixLinks ==
    <<"https://a.com/1", "https://a.com/2", "https://a.com/3", "https://a.com/4",
      "https://a.com/5", "https://a.com/6">>

UrlLists ==
    UNION {[1..n -> LinkUrls] : n \in 0..MaxUrls} \cup {SixLinks}

\* a direct call of _detect_suspicious_links
InitLinks ==
    /\ call = "_detect_suspicious_links"
    /\ fn_arg \in UrlLists
    /\ loop = NoLoop
    /\ InitIdle

\* the domains given to _has_typosquatting_pattern
TypoDomains ==
    {"a.com", "paypal.com", "paypal-secure.com", "mail.paypal-secure.co.uk",
     "micros0ft.net", "app1e.com", "verificati0n.org", "paypalll.com",
     "gooogle.com", "aa.a.com", "1.2.3.4", "localhost"}

\* twenty words none of which is unusual
TwentyWords ==
    "the be to of and a in that have i it for not on with he as you do at"

\* the bodies given to _detect_language_anomalies
LanguageBodies ==
    { "",
      "see you at noon!!!   ",
      TwentyWords,
      "the be to of and a in that have i it for not on with he as you do!!!   ",
      "the be to of and a in that have i it for not on with he as you don't ...   ",
      TwentyWords \o "...",
      TwentyWords \o " 2024 \n\t ok",
      "the be to of and?!.   a in that have i it for not on with he as you do at",
      "please verify account details today the be to of and a in that have i it for not on with",
      "please verify account details the be to of and a in that have i it for not on with he",
      "Please VERIFY account details today the be to of and a in that have i it for not on with!!!!",
      "please verify   account details today.... the be to of and a in that have i it for not on with",
      "acc0unt l0cked: please verify account details, then the be to of and a in that have i it for" }

\* the tokens of the word lists given to _estimate_spelling_issues
SpellingTokens ==
    {"the", "cat", "a1", "there", "There", "then", "other", "thereon", "please",
     "don't", "acc0unt", "l0ck", "then1", "cooool", "theeere", "Theeere",
     "onnnthen"}

WordLists ==
    {<<>>, <<"please", "theeere", "the">>, <<"then", "then1", "other", "cooool">>}
    \cup {<<token>> : token \in SpellingTokens}

\* the categories of the six detectors, in the order of lines 62-67
Categories ==
    <<"Urgency Tactics", "Sensitive Data Request", "Sender Domain Mismatch",
      "Suspicious Links", "Suspicious Attachments", "Grammar & Style">>

\* a finding of the category
OfKind(category) == Finding(category, "", "medium", <<>>)

\* one finding for each category of the set, in the order of the detectors
FindingsOfKinds(kinds) ==
    [k \in 1..Len(SelectSeq(Categories, LAMBDA c : c \in kinds)) |->
        OfKind(SelectSeq(Categories, LAMBDA c : c \in kinds)[k])]

\* the arguments given to _build_recommendations
RecommendationArgs ==
    [risk : Severities,
     findings : {FindingsOfKinds(kinds) : kinds \in SUBSET {Categories[k] : k \in 1..6}}
                \cup {<<OfKind("Sensitive Data Request"), OfKind("Sensitive Data Request")>>},
     has_urls : BOOLEAN]

\* a direct call of one of the helpers that run in one step
InitHelper ==
    /\ \/ call = "_has_typosquatting_pattern" /\ fn_arg \in TypoDomains
       \/ /\ call = "_detect_language_anomalies"
          /\ \E body \in LanguageBodies :
                fn_arg = Request("", body, None, None, <<>>, <<>>)
       \/ call = "_estimate_spelling_issues" /\ fn_arg \in WordLists
       \/ call = "_build_recommendations" /\ fn_arg \in RecommendationArgs
    /\ loop = NoLoop
    /\ InitIdle

Init ==
    \/ InitAnalyze
    \/ InitScore
    \/ InitScenario
    \/ InitPd
    \/ InitHttp
    \/ InitLinks
    \/ InitHelper

(***************************************************************************)
(* analyze_email, step by step                                             *)
(***************************************************************************)
\* a faulty merge that appends the urls of the body to payload.urls itself
RequestWithMergedUrls(request, collected) == [request EXCEPT !.urls = collected]

\* the request after _collect_urls: line 87 copies payload.urls into a new
\* list, so the appends of line 94 do not reach the request
RequestAfterCollect(request, collected) == request

\* line 59
Collect(r) ==
    /\ pc[r] = "start"
    /\ urls' = [urls EXCEPT ![r] = _collect_urls(payload)]
    /\ payload' = RequestAfterCollect(payload, _collect_urls(payload))
    /\ pc' = [pc EXCEPT ![r] = "collected"]
    /\ UNCHANGED <<api_vars, call, seed, api_key, findings, scored, insights,
                   answers, queries, raised, response, sf_arg, sf_ret>>

\* a faulty list kept at module level, which every analysis extends
ExtendedShared(lists, r, found) == [q \in Runs |-> lists[q] \o found]

\* the lists of findings after analysis r ran lines 61-67: line 61 starts an
\* empty list in the call, lines 62-67 extend that list
ExtendedLocal(lists, r, found) == [lists EXCEPT ![r] = found]

\* lines 61-67
Detect(r) ==
    /\ pc[r] = "collected"
    /\ findings' = ExtendedLocal(findings, r, DetectAll(payload, urls[r], seed[r]))
    /\ pc' = [pc EXCEPT ![r] = "detected"]
    /\ UNCHANGED <<api_vars, call, payload, seed, api_key, urls, scored, insights,
                   answers, queries, raised, response, sf_arg, sf_ret>>

\* line 69
Score(r) ==
    /\ pc[r] = "detected"
    /\ scored' = [scored EXCEPT ![r] = _score_findings(findings[r])]
    /\ pc' = [pc EXCEPT ![r] = "scored"]
    /\ UNCHANGED <<api_vars, call, payload, seed, api_key, urls, findings, insights,
                   answers, queries, raised, response, sf_arg, sf_ret>>

\* lines 71-73 with no url: lookup_urls is not called
SkipLookup(r) ==
    /\ pc[r] = "scored"
    /\ urls[r] = <<>>
    /\ pc' = [pc EXCEPT ![r] = "looked"]
    /\ UNCHANGED <<api_vars, call, payload, seed, api_key, urls, findings, scored, insights,
                   answers, queries, raised, response, sf_arg, sf_ret>>

\* lookup_urls without an API key: the early return of lines 23-32
LookupUnavailable(r) ==
    /\ pc[r] = "scored"
    /\ urls[r] # <<>>
    /\ KeyMissing(api_key[r])
    /\ insights' = [insights EXCEPT ![r] = KeylessInsights(urls[r])]
    /\ pc' = [pc EXCEPT ![r] = "looked"]
    /\ UNCHANGED <<api_vars, call, payload, seed, api_key, urls, findings, scored,
                   answers, queries, raised, response, sf_arg, sf_ret>>

\* lookup_urls with an API key: the client is opened (lines 34-35)
LookupOpen(r) ==
    /\ pc[r] = "scored"
    /\ urls[r] # <<>>
    /\ ~KeyMissing(api_key[r])
    /\ pc' = [pc EXCEPT ![r] = "lookup"]
    /\ UNCHANGED <<api_vars, call, payload, seed, api_key, urls, findings, scored, insights,
                   answers, queries, raised, response, sf_arg, sf_ret>>

\* the url the loop of line 36 is at: one insight was appended for each before
CurrentUrl(r) == urls[r][Len(insights[r]) + 1]

\* one iteration for a url without a domain (lines 37-46)
LookupNoDomain(r) ==
    /\ pc[r] = "lookup"
    /\ Len(insights[r]) < Len(urls[r])
    /\ ReputationDomain(CurrentUrl(r)) = None
    /\ insights' = [insights EXCEPT ![r] = Append(@, UnknownInsight(CurrentUrl(r)))]
    /\ answers' = [answers EXCEPT ![r] = Append(@, NotAsked)]
    /\ UNCHANGED <<api_vars, call, payload, seed, api_key, pc, urls, findings, scored,
                   queries, raised, response, sf_arg, sf_ret>>

\* the list of insights after the request for url was answered (lines 51-62)
AfterAnswer(done, url, answer) == Append(done, AnsweredInsight(url, answer))

\* one iteration for a url with a domain: the request and its answer (lines 47-62)
LookupFetch(r) ==
    /\ pc[r] = "lookup"
    /\ Len(insights[r]) < Len(urls[r])
    /\ ReputationDomain(CurrentUrl(r)) # None
    /\ \E answer \in Answers :
          /\ queries' = [queries EXCEPT ![r] = Append(@, ReputationDomain(CurrentUrl(r)))]
          /\ answers' = [answers EXCEPT ![r] = Append(@, answer)]
          /\ IF EscapingError(answer) # ""
             THEN /\ raised' = [raised EXCEPT ![r] = EscapingError(answer)]
                  /\ pc' = [pc EXCEPT ![r] = "raised"]
                  /\ UNCHANGED insights
             ELSE /\ insights' = [insights EXCEPT ![r] =
                                     AfterAnswer(@, CurrentUrl(r), answer)]
                  /\ UNCHANGED <<raised, pc>>
    /\ UNCHANGED <<api_vars, call, payload, seed, api_key, urls, findings, scored,
                   response, sf_arg, sf_ret>>

\* the loop is over: lookup_urls returns (line 64)
LookupReturn(r) ==
    /\ pc[r] = "lookup"
    /\ Len(insights[r]) = Len(urls[r])
    /\ pc' = [pc EXCEPT ![r] = "looked"]
    /\ UNCHANGED <<api_vars, call, payload, seed, api_key, urls, findings, scored, insights,
                   answers, queries, raised, response, sf_arg, sf_ret>>

\* a faulty response whose score follows the reputation verdicts
EmailAnalysisResponseByVerdict(r) ==
    [overall_risk |-> scored[r].risk,
     score |-> IF \E i \in 1..Len(insights[r]) : insights[r][i].status = "malicious"
               THEN 100 ELSE scored[r].score,
     findings |-> findings[r],
     url_insights |-> insights[r],
     recommendations |->
         _build_recommendations(scored[r].risk, findings[r], urls[r] # <<>>)]

\* the response of lines 77-83
EmailAnalysisResponse(r) ==
    [overall_risk |-> scored[r].risk,
     score |-> scored[r].score,
     findings |-> findings[r],
     url_insights |-> insights[r],
     recommendations |->
         _build_recommendations(scored[r].risk, findings[r], urls[r] # <<>>)]

\* Field(..., ge=0, le=100) of EmailAnalysisResponse.score
ScoreValid(score) == 0 <= score /\ score <= 100

\* lines 75-83: the response is built, validated and returned
Return(r) ==
    /\ pc[r] = "looked"
    /\ IF ScoreValid(scored[r].score)
       THEN /\ response' = [response EXCEPT ![r] = <<EmailAnalysisResponse(r)>>]
            /\ pc' = [pc EXCEPT ![r] = "done"]
            /\ UNCHANGED raised
       ELSE /\ raised' = [raised EXCEPT ![r] = "ValidationError"]
            /\ pc' = [pc EXCEPT ![r] = "raised"]
            /\ UNCHANGED response
    /\ UNCHANGED <<api_vars, call, payload, seed, api_key, urls, findings, scored, insights,
                   answers, queries, sf_arg, sf_ret>>

\* a direct call of _score_findings
ScoreCall ==
    /\ call = "_score_findings"
    /\ sf_ret = <<>>
    /\ sf_ret' = <<_score_findings(sf_arg)>>
    /\ UNCHANGED <<api_vars, call, payload, seed, api_key, pc, urls, findings, scored,
                   insights, answers, queries, raised, response, sf_arg>>

\* a direct call of PhishingDetector.analyze_email
PdCall ==
    /\ call = "PhishingDetector.analyze_email"
    /\ pd_ret = <<>>
    /\ pd_ret' = <<PhishingDetector_analyze_email(pd_arg.email_content, pd_arg.sender,
                                                  pd_arg.subject, pd_arg.lang, seed[1])>>
    /\ UNCHANGED <<call, payload, seed, api_key, pc, urls, findings, scored, insights,
                   answers, queries, raised, response, sf_arg, sf_ret,
                   http_req, http_resp, engine_calls, pd_arg, helper_vars>>

\* the validation of the posted object against EmailAnalysisRequest: subject
\* and body are required strings, without a constraint on their length
ValidRequest(post) ==
    /\ post.subject \notin {Missing, None}
    /\ post.body \notin {Missing, None}

\* the EmailAnalysisRequest of a valid posted object
ParsedRequest(post) ==
    Request(post.subject, post.body,
            IF post.sender = Missing THEN None ELSE post.sender, None, <<>>, <<>>)

\* analyze_endpoint of main.py receives a request: FastAPI answers 422 to an
\* object that is not an EmailAnalysisRequest, else the handler calls
\* analyze_email (line 55)
FastApiAnalyze ==
    /\ call = FastAPI
    /\ http_resp = <<>>
    /\ pc[1] = "idle"
    /\ engine_calls = <<>>
    /\ IF ValidRequest(http_req)
       THEN /\ payload' = ParsedRequest(http_req)
            /\ pc' = [pc EXCEPT ![1] = "start"]
            /\ engine_calls' = <<http_req.body>>
            /\ UNCHANGED http_resp
       ELSE /\ http_resp' = <<[status |-> 422, body |-> "Unprocessable Entity"]>>
            /\ UNCHANGED <<payload, pc, engine_calls>>
    /\ UNCHANGED <<call, seed, api_key, urls, findings, scored, insights,
                   answers, queries, raised, response, sf_arg, sf_ret,
                   http_req, pd_arg, pd_ret, helper_vars>>

\* analyze_endpoint returns what analyze_email returned (line 55)
FastApiRespond ==
    /\ call = FastAPI
    /\ http_resp = <<>>
    /\ pc[1] \in {"done", "raised"}
    /\ http_resp' = IF pc[1] = "done"
                    THEN <<[status |-> 200, body |-> response[1][1]]>>
                    ELSE <<[status |-> 500, body |-> "Internal Server Error"]>>
    /\ UNCHANGED <<call, payload, seed, api_key, pc, urls, findings, scored, insights,
                   answers, queries, raised, response, sf_arg, sf_ret,
                   http_req, engine_calls, pd_arg, pd_ret, helper_vars>>

\* data.get(key, '') of app.py
GetOrEmpty(value) == IF value = Missing THEN "" ELSE value

\* the test of line 40 of app.py: `not data` holds for the empty object
MissingContent(post) == post.body = Missing

\* app.py calls the engine (line 54) for this object
FlaskCallsEngine(post) ==
    /\ ~MissingContent(post)
    /\ post.body # None
    /\ Strip(post.body) # ""

\* the response of analyze_email of app.py (lines 37-66)
FlaskResponse(post, lang, hash_seed) ==
    IF MissingContent(post)
    THEN [status |-> 400, body |-> [error |-> "Missing required field: email_content"]]
    ELSE IF post.body = None
    THEN [status |-> 500,
          body |-> [error |-> "Analysis failed: 'NoneType' object has no attribute 'strip'"]]
    ELSE IF Strip(post.body) = ""
    THEN [status |-> 400, body |-> [error |-> "Email content cannot be empty"]]
    ELSE [status |-> 200,
          body |-> PhishingDetector_analyze_email(post.body, GetOrEmpty(post.sender),
                                                 GetOrEmpty(post.subject), lang,
                                                 hash_seed)]

\* analyze_email of app.py, the whole handler
FlaskAnalyze ==
    /\ call = Flask
    /\ http_resp = <<>>
    /\ \E lang \in Languages :
          http_resp' = <<FlaskResponse(http_req, lang, seed[1])>>
    /\ engine_calls' = IF FlaskCallsEngine(http_req) THEN <<http_req.body>> ELSE <<>>
    /\ UNCHANGED <<call, payload, seed, api_key, pc, urls, findings, scored, insights,
                   answers, queries, raised, response, sf_arg, sf_ret,
                   http_req, pd_arg, pd_ret, helper_vars>>

(***************************************************************************)
(* Direct calls of the helpers of detector.py                              *)
(***************************************************************************)
\* what the direct calls of the helpers leave alone
others == <<call, payload, seed, api_key, pc, urls, findings, scored, insights,
            answers, queries, raised, response, sf_arg, sf_ret,
            http_req, http_resp, engine_calls, pd_arg, pd_ret>>

\* _detect_suspicious_links is entered: lines 188-193
LinksEnter ==
    /\ call = "_detect_suspicious_links"
    /\ loop.at = "idle"
    /\ IF fn_arg = <<>>
       THEN /\ fn_ret' = <<_detect_suspicious_links(NoRequest, fn_arg)>>
            /\ loop' = Locals("returned", 0, "medium", <<>>)
       ELSE /\ loop' = Locals("loop", 0, "medium", <<>>)
            /\ UNCHANGED fn_ret
    /\ UNCHANGED <<others, fn_arg>>

\* the locals after the iteration that left the loop in the state step
AfterUrl(locals, step) ==
    Locals("loop", locals.i + 1, step.severity, step.evidence)

\* one iteration of the loop of lines 194-207
LinksIterate ==
    /\ call = "_detect_suspicious_links"
    /\ loop.at = "loop"
    /\ loop.i < Len(fn_arg)
    /\ loop' = AfterUrl(loop, LinkStep(loop, fn_arg[loop.i + 1],
                                       _domain_from_url(fn_arg[loop.i + 1])))
    /\ UNCHANGED <<others, fn_arg, fn_ret>>

\* the loop is over: lines 209-222
LinksReturn ==
    /\ call = "_detect_suspicious_links"
    /\ loop.at = "loop"
    /\ loop.i = Len(fn_arg)
    /\ fn_ret' = <<LinksFindingOf(loop, Len(fn_arg))>>
    /\ loop' = [loop EXCEPT !.at = "returned"]
    /\ UNCHANGED <<others, fn_arg>>

\* a direct call of _has_typosquatting_pattern
TyposquatCall ==
    /\ call = "_has_typosquatting_pattern"
    /\ fn_ret = <<>>
    /\ fn_ret' = <<_has_typosquatting_pattern(fn_arg)>>
    /\ UNCHANGED <<others, fn_arg, loop>>

\* a direct call of _detect_language_anomalies
LanguageCall ==
    /\ call = "_detect_language_anomalies"
    /\ fn_ret = <<>>
    /\ fn_ret' = <<_detect_language_anomalies(fn_arg)>>
    /\ UNCHANGED <<others, fn_arg, loop>>

\* a direct call of _estimate_spelling_issues
SpellingCall ==
    /\ call = "_estimate_spelling_issues"
    /\ fn_ret = <<>>
    /\ fn_ret' = <<_estimate_spelling_issues(fn_arg)>>
    /\ UNCHANGED <<others, fn_arg, loop>>

\* a direct call of _build_recommendations
RecommendCall ==
    /\ call = "_build_recommendations"
    /\ fn_ret = <<>>
    /\ fn_ret' = <<_build_recommendations(fn_arg.risk, fn_arg.findings, fn_arg.has_urls)>>
    /\ UNCHANGED <<others, fn_arg, loop>>

Next ==
    \/ \E r \in Runs :
          \/ Collect(r)
          \/ Detect(r)
          \/ Score(r)
          \/ SkipLookup(r)
          \/ LookupUnavailable(r)
          \/ LookupOpen(r)
          \/ LookupNoDomain(r)
          \/ LookupFetch(r)
          \/ LookupReturn(r)
          \/ Return(r)
    \/ ScoreCall
    \/ PdCall
    \/ FastApiAnalyze
    \/ FastApiRespond
    \/ FlaskAnalyze
    \/ LinksEnter
    \/ LinksIterate
    \/ LinksReturn
    \/ TyposquatCall
    \/ LanguageCall
    \/ SpellingCall
    \/ RecommendCall

Spec == Init /\ [][Next]_vars

(***************************************************************************)
(* Properties of the aggregation                                           *)
(***************************************************************************)
\* 0 <= score <= 100
InRange(score) == 0 <= score /\ score <= 100

\* the thresholds: high from 60, medium from 30 to 59, low below 30
RiskByThreshold(score, risk) ==
    /\ (score >= 60 => risk = "high")
    /\ (30 <= score /\ score < 60 => risk = "medium")
    /\ (score < 30 => risk = "low")

\* C1: for every list of findings _score_findings returns a score between 0
\* and 100 and the risk level its thresholds give for that score (high from
\* 60, medium from 30, low below), and so are the score and the overall_risk
\* of every response analyze_email returns.
C1_ScoreInRangeRiskByThreshold ==
    /\ sf_ret # <<>> =>
          /\ InRange(sf_ret[1].score)
          /\ RiskByThreshold(sf_ret[1].score, sf_ret[1].risk)
    /\ \A r \in Runs :
          response[r] # <<>> =>
              /\ InRange(response[r][1].score)
              /\ RiskByThreshold(response[r][1].score, response[r][1].overall_risk)

\* a call whose weights add up to more than 100 returned the capped score
C1_CappedCall ==
    /\ sf_ret # <<>>
    /\ SumWeights(sf_arg) > 100
    /\ sf_ret[1].score = 100
    /\ sf_ret[1].risk = "high"

\* the number of findings of one severity
CountOf(fs, severity) == Cardinality({i \in 1..Len(fs) : fs[i].severity = severity})

\* min(100, 10*L + 20*M + 35*H)
ExpectedScore(fs) ==
    Min(100, 10 * CountOf(fs, "low") + 20 * CountOf(fs, "medium")
             + 35 * CountOf(fs, "high"))

\* C2: the score _score_findings returns is min(100, 10*L + 20*M + 35*H) for
\* the numbers L, M, H of low, medium and high findings, 0 for no finding;
\* this holds for the direct calls and for the call analyze_email makes.
C2_ScoreIsCappedWeightedCount ==
    /\ sf_ret # <<>> =>
          /\ sf_ret[1].score = ExpectedScore(sf_arg)
          /\ (sf_arg = <<>> => sf_ret[1].score = 0)
    /\ \A r \in Runs :
          pc[r] \in {"scored", "lookup", "looked", "done"} =>
              scored[r].score = ExpectedScore(findings[r])

\* a call on one low, one medium and one high finding returned 65
C2_MixedCall ==
    /\ sf_ret # <<>>
    /\ CountOf(sf_arg, "low") = 1
    /\ CountOf(sf_arg, "medium") = 1
    /\ CountOf(sf_arg, "high") = 1
    /\ sf_ret[1].score = 65

(***************************************************************************)
(* Properties of analyze_email                                             *)
(***************************************************************************)
\* C3: two runs of analyze_email on the identical request, the collaborator
\* configured alike and answering alike, return identical responses: score,
\* risk, findings in order, and the evidence of each finding in order.
C3_SameRequestSameResponse ==
    (/\ response[1] # <<>>
     /\ response[2] # <<>>
     /\ api_key[1] = api_key[2]
     /\ answers[1] = answers[2])
    => response[1] = response[2]

\* xs holds no entry twice
NoDuplicates(xs) == \A i, j \in 1..Len(xs) : xs[i] = xs[j] => i = j

\* the punctuation that may follow a url in running text
Punctuation == {".", ",", ";", ":", "!", "?", ")"}

\* the url u stands in the body between white space, possibly followed by
\* punctuation
EmbeddedIn(body, u) ==
    \E i \in 0..(Len(body) - Len(u)) :
        /\ OccursAt(body, u, i)
        /\ At(body, i - 1) \in SpaceSet \cup {""}
        /\ At(body, i + Len(u)) \in SpaceSet \cup Punctuation \cup {""}

\* the entry e is the url u, possibly followed by punctuation
EntryFor(e, u) ==
    /\ StartsWith(e, u)
    /\ \A k \in Len(u)..(Len(e) - 1) : At(e, k) \in Punctuation

\* C4: _collect_urls returns a list without duplicates that starts with the
\* explicit urls in first-occurrence order, and a url given in the urls field
\* that also stands in the body, whatever surrounds it there, has exactly one
\* entry.
C4_CollectedOnce ==
    \A r \in Runs :
        pc[r] \notin {"start", "idle"} =>
            /\ NoDuplicates(urls[r])
            /\ SubSeq(urls[r], 1, Len(FromKeys(payload.urls, <<>>)))
                   = FromKeys(payload.urls, <<>>)
            /\ \A i \in 1..Len(payload.urls) :
                  (payload.urls[i] # "" /\ EmbeddedIn(payload.body, payload.urls[i])) =>
                      Cardinality({k \in 1..Len(urls[r]) :
                                      EntryFor(urls[r][k], payload.urls[i])}) = 1

\* C5: whenever lookup_urls returns (no API key, a url without a domain, an
\* HTTP failure, an answered request) its list has one insight per input url,
\* the i-th for the i-th url; the url_insights of a response has one insight
\* per collected url, in the order of the collected urls, none for no url.
C5_OneInsightPerUrl ==
    \A r \in Runs :
        /\ pc[r] \in {"looked", "done"} =>
              /\ Len(insights[r]) = Len(urls[r])
              /\ \A i \in 1..Len(urls[r]) : insights[r][i].url = urls[r][i]
        /\ response[r] # <<>> =>
              /\ Len(response[r][1].url_insights) = Len(urls[r])
              /\ \A i \in 1..Len(urls[r]) :
                    response[r][1].url_insights[i].url = urls[r][i]

\* a response for two urls, the first without a domain, the second failed
C5_UnknownThenError ==
    /\ response[1] # <<>>
    /\ Len(urls[1]) = 2
    /\ response[1][1].url_insights[1].status = "unknown"
    /\ response[1][1].url_insights[2].status = "error"

\* C6: lookup_urls never raises and analyze_email always returns a response,
\* whatever the collaborator does for a url: a transport error, a status
\* outside 2xx, a 2xx body that is not JSON or not a JSON object.
C6_NeverRaises == \A r \in Runs : pc[r] # "raised" /\ raised[r] = ""

\* URLSCAN_API_KEY is unset or empty in the environment of run r
Unconfigured(r) == api_key[r] = None \/ api_key[r] = ""

\* C7: without a URLSCAN_API_KEY lookup_urls makes no network call and
\* returns an "unavailable" insight for every url; one collected url gives
\* exactly one insight, "unavailable".
C7_NoKeyNoCall ==
    \A r \in Runs :
        (call = "analyze_email" /\ Unconfigured(r)) =>
            /\ queries[r] = <<>>
            /\ answers[r] = <<>>
            /\ pc[r] \in {"looked", "done"} =>
                  /\ Len(insights[r]) = Len(urls[r])
                  /\ \A i \in 1..Len(insights[r]) : insights[r][i].status = "unavailable"
            /\ (response[r] # <<>> /\ Len(urls[r]) = 1) =>
                  /\ Len(response[r][1].url_insights) = 1
                  /\ response[r][1].url_insights[1].status = "unavailable"

\* a response for one collected url without a key
C7_OneUnavailable ==
    /\ Unconfigured(1)
    /\ response[1] # <<>>
    /\ Len(urls[1]) = 1
    /\ response[1][1].url_insights[1].status = "unavailable"
    /\ queries[1] = <<>>

\* the answers that are network or API failures: the request or
\* raise_for_status raised
Failures == {a \in Answers : a.outcome # "response" \/ a.status \notin 200..299}

\* C8: with an API key, a failed lookup of one url gives that url an insight
\* with status "error" and details, and only that url: the loop goes on (the
\* failure ends neither the loop nor the analysis), and the insight of any
\* other url is what the answer for that url makes it, whatever the lookups
\* of the other urls came to.
C8_FailureIsLocal ==
    /\ \A r \in Runs :
          ~Unconfigured(r) =>
              /\ \A i \in 1..Len(insights[r]) :
                    answers[r][i] \in Failures =>
                        /\ insights[r][i].status = "error"
                        /\ insights[r][i].details # ""
                        /\ insights[r][i].url = urls[r][i]
              /\ (pc[r] = "raised" => Last(answers[r]) \notin Failures)
              /\ Len(answers[r]) = Len(insights[r]) + (IF pc[r] = "raised" THEN 1 ELSE 0)
    /\ (~Unconfigured(1) /\ ~Unconfigured(2)) =>
          \A i \in 1..Min(Len(insights[1]), Len(insights[2])) :
              answers[1][i] = answers[2][i] => insights[1][i] = insights[2][i]

\* two lookups of two urls: the first url failed in run 1 only, the second
\* was answered alike, and its insights are alike
C8_FailedFirstOnly ==
    /\ pc[1] = "done" /\ pc[2] = "done"
    /\ Len(urls[1]) = 2
    /\ answers[1] = <<ConnectFailed, Phishing>>
    /\ answers[2] = <<NoScans, Phishing>>
    /\ insights[1][1].status = "error"
    /\ insights[2][1].status = "clean"
    /\ insights[1][2] = insights[2][2]
    /\ insights[1][2].status = "malicious"

\* C9: score, overall_risk, findings and recommendations of a response do not
\* depend on the collaborator: two runs on one request, whatever the
\* collaborator answers and whether or not it is configured, return the same
\* score, overall_risk and recommendations, and the same findings when they
\* run in the same interpreter environment; they differ at most in
\* url_insights.
C9_IndependentOfCollaborator ==
    (response[1] # <<>> /\ response[2] # <<>>) =>
        /\ response[1][1].score = response[2][1].score
        /\ response[1][1].overall_risk = response[2][1].overall_risk
        /\ response[1][1].recommendations = response[2][1].recommendations
        /\ seed[1] = seed[2] => response[1][1].findings = response[2][1].findings

\* two responses, one without the collaborator, one with a malicious verdict
C9_UnconfiguredAndMalicious ==
    /\ response[1] # <<>> /\ response[2] # <<>>
    /\ seed[1] = seed[2]
    /\ Unconfigured(1) /\ ~Unconfigured(2)
    /\ urls[1] # <<>>
    /\ response[1][1].url_insights[1].status = "unavailable"
    /\ response[2][1].url_insights[1].status = "malicious"
    /\ response[1][1].findings # <<>>

\* name ends with ext when letters are compared without their case
EndsCaseInsensitively(name, ext) ==
    /\ Len(name) >= Len(ext)
    /\ \A k \in 0..(Len(ext) - 1) :
          LowerCh(At(name, Len(name) - Len(ext) + k)) = LowerCh(At(ext, k))

\* name ends with one of the listed extensions
EndsWithListed(name) ==
    \E e \in 1..Len(SUSPICIOUS_ATTACHMENT_EXTENSIONS) :
        EndsCaseInsensitively(name, SUSPICIOUS_ATTACHMENT_EXTENSIONS[e])

\* the findings of one category
OfCategory(fs, category) == SelectSeq(fs, LAMBDA f : f.category = category)

\* what the attachment findings must be for the flagged names
AttachmentFindingsAre(found, flagged) ==
    IF flagged = <<>> THEN found = <<>>
    ELSE /\ Len(found) = 1
         /\ found[1].severity = "high"
         /\ found[1].evidence = flagged

\* C10: _detect_attachment_risk returns one finding, "Suspicious
\* Attachments", high, with the flagged file names in input order as
\* evidence, if and only if a file name ends, case-insensitively, with one of
\* the eleven listed extensions; otherwise it returns no finding.
C10_AttachmentFinding ==
    /\ Cardinality({SUSPICIOUS_ATTACHMENT_EXTENSIONS[e] :
                       e \in 1..Len(SUSPICIOUS_ATTACHMENT_EXTENSIONS)}) = 11
    /\ \A r \in Runs :
          pc[r] \in {"detected", "scored", "lookup", "looked", "done", "raised"} =>
              AttachmentFindingsAre(OfCategory(findings[r], "Suspicious Attachments"),
                                    SelectSeq(payload.attachments, EndsWithListed))

\* five attachments of which the second and the fourth are flagged
C10_TwoOfFiveFlagged ==
    /\ pc[1] = "done"
    /\ Len(payload.attachments) = 5
    /\ OfCategory(findings[1], "Suspicious Attachments") # <<>>
    /\ OfCategory(findings[1], "Suspicious Attachments")[1].evidence
           = <<"SETUP.EXE", "run.Js">>

(***************************************************************************)
(* Properties of the detectors                                             *)
(***************************************************************************)
\* analysis r has just run its detectors
Detected(r) == pc[r] = "detected"

\* the index of the first occurrence of keyword in body, whatever its case, -1
\* if none (a keyword has no letter that changes length with its case)
FirstOccurrence(body, keyword) ==
    Least({i \in 0..(Len(body) - Len(keyword)) :
              Lower(Slice(body, i, i + Len(keyword))) = keyword})

\* snippet is a piece of body that holds the occurrence of keyword at index at
\* and at most window characters on each side of it
SnippetAround(snippet, body, keyword, at, window) ==
    /\ at >= 0
    /\ \E a \in Max(0, at - window)..at :
          /\ OccursAt(body, snippet, a)
          /\ a + Len(snippet) >= at + Len(keyword)
          /\ a + Len(snippet) <= at + Len(keyword) + window

\* the lexicon keywords the lower-cased body low contains
MatchedKeywords(low) ==
    {SENSITIVE_KEYWORDS[k] : k \in {j \in 1..Len(SENSITIVE_KEYWORDS) :
                                       Contains(low, SENSITIVE_KEYWORDS[j])}}

\* what the sensitive-data findings must be for the matched keywords
SensitiveFindingsAre(found, body, matched) ==
    IF matched = {} THEN found = <<>>
    ELSE /\ Len(found) = 1
         /\ found[1].severity = "high"
         /\ Len(found[1].evidence) = Cardinality(matched)
         /\ \A keyword \in matched :
               \E i \in 1..Len(found[1].evidence) :
                   SnippetAround(found[1].evidence[i], body, keyword,
                                 FirstOccurrence(body, keyword), ContextWindow)

\* C11: _detect_sensitive_requests returns exactly one finding, of severity
\* high, if and only if the lower-cased body contains a lexicon keyword,
\* however many match; its evidence holds one snippet per matched keyword,
\* and each snippet holds that keyword's first occurrence with at most 40
\* characters of context on each side.
C11_OneSnippetPerKeyword ==
    \A r \in Runs :
        Detected(r) =>
            SensitiveFindingsAre(OfCategory(findings[r], "Sensitive Data Request"),
                                 payload.body, MatchedKeywords(Lower(payload.body)))

\* the categories of the findings fs
CategoriesOf(fs) == {fs[i].category : i \in 1..Len(fs)}

\* the evidence of the first finding of the category, <<>> without one
EvidenceOf(fs, category) ==
    IF OfCategory(fs, category) = <<>> THEN <<>>
    ELSE OfCategory(fs, category)[1].evidence

\* the response answers the PayPal walk-through as documented
PayPalResponse(resp) ==
    /\ resp.overall_risk = "high"
    /\ resp.score >= 60
    /\ {"Urgency Tactics", "Sensitive Data Request", "Sender Domain Mismatch",
        "Suspicious Links"} \subseteq CategoriesOf(resp.findings)
    /\ InList(EvidenceOf(resp.findings, "Suspicious Links"),
              "URL " \o Quoted("http://paypa1-secure.xyz/verify")
                  \o " is not served over HTTPS.")
    /\ \E i \in 1..Len(EvidenceOf(resp.findings, "Suspicious Links")) :
          /\ Contains(EvidenceOf(resp.findings, "Suspicious Links")[i], "paypa1-secure.xyz")
          /\ Contains(EvidenceOf(resp.findings, "Suspicious Links")[i], "typosquat")

\* C12: for the PayPal walk-through (subject "URGENT: Verify Your PayPal
\* Account NOW!", urgency phrases and a request for credentials in the body,
\* the link http://paypa1-secure.xyz/verify, sender security@paypa1-alert.xyz)
\* analyze_email returns overall_risk high and a score of at least 60, with
\* findings of the categories Urgency Tactics, Sensitive Data Request, Sender
\* Domain Mismatch and Suspicious Links, the last with a non-HTTPS entry and
\* a typosquat entry for paypa1-secure.xyz.
C12_PayPalWalkThrough ==
    \A r \in Runs :
        (payload = PayPalRequest /\ response[r] # <<>>) => PayPalResponse(response[r][1])

(***************************************************************************)
(* The benign scenario                                                     *)
(***************************************************************************)
\* no word of text is upper-case and longer than 3 characters, no two
\* exclamation marks follow each other
Calm(text) ==
    /\ ~Contains(text, "!!")
    /\ SelectSeq(Tokens(text, 0, SpaceSet, TRUE),
                 LAMBDA word : IsUpperWord(word) /\ Len(word) > 3) = <<>>

\* low, the lower-cased text, holds no phrase and no keyword of the lexicons
NoKeyword(low) ==
    /\ \A i \in 1..Len(URGENT_PHRASES) : ~Contains(low, URGENT_PHRASES[i])
    /\ \A i \in 1..Len(SENSITIVE_KEYWORDS) : ~Contains(low, SENSITIVE_KEYWORDS[i])

\* a short, plain email without lexicon keyword: subject and body only, fewer
\* than 20 words, calm
PlainRequest(p) ==
    /\ p.sender = None
    /\ p.reply_to = None
    /\ p.attachments = <<>>
    /\ Len(FindWords(p.body)) < MinWords
    /\ Calm(p.subject)
    /\ Calm(p.body)
    /\ NoKeyword(Lower(p.subject \o " " \o p.body))

\* an HTTPS link to a named host that imitates no brand
PlainHttpsLink(url) ==
    /\ StartsWith(url, "https://")
    /\ ~_looks_like_ip(_domain_from_url(url))
    /\ ~_has_typosquatting_pattern(_domain_from_url(url))

\* the links are few and all plain HTTPS links
HttpsOnly(links) ==
    /\ Len(links) <= ManyLinks
    /\ \A i \in 1..Len(links) : PlainHttpsLink(links[i])

\* the benign case: a plain request analysed to the end, its links HTTPS only
BenignDone(r) ==
    /\ response[r] # <<>>
    /\ PlainRequest(payload)
    /\ HttpsOnly(urls[r])

\* score 0, risk low, no findings
CleanResponse(resp) ==
    /\ resp.score = 0
    /\ resp.overall_risk = "low"
    /\ resp.findings = <<>>

\* the statement of C13 as the specification words it: for a short, plain
\* email with no lexicon keyword whose only links are HTTPS links,
\* analyze_email returns score 0, overall_risk low, no findings and the
\* single recommendation "Email appears lower risk but remain vigilant."
C13_BenignGenericCaution ==
    \A r \in Runs :
        BenignDone(r) =>
            /\ CleanResponse(response[r][1])
            /\ response[r][1].recommendations
                   = <<"Email appears lower risk but remain vigilant.">>

\* C13: for a short, plain email with no lexicon keyword whose only links
\* are HTTPS links, analyze_email returns score 0, overall_risk low, no
\* findings and exactly one recommendation: "Email appears lower risk but
\* remain vigilant." when the email has no link at all, "Hover over links to
\* inspect destinations before clicking." when it has one.
C13_BenignSingleRecommendation ==
    \A r \in Runs :
        BenignDone(r) =>
            /\ CleanResponse(response[r][1])
            /\ response[r][1].recommendations
                   = IF urls[r] = <<>>
                     THEN <<"Email appears lower risk but remain vigilant.">>
                     ELSE <<"Hover over links to inspect destinations before clicking.">>

\* a benign email whose one link, HTTPS, stands in the body was analysed
C13_BenignWithBodyLink ==
    /\ BenignDone(1)
    /\ payload.urls = <<>>
    /\ urls[1] = <<"https://a.com/notes">>
    /\ response[1][1].recommendations
           = <<"Hover over links to inspect destinations before clicking.">>

(***************************************************************************)
(* Properties of the API layer                                             *)
(***************************************************************************)
\* the body is missing, null or empty after trimming
EmptyBody(body) == body \in {Missing, None} \/ Strip(body) = ""

\* C14: no engine is invoked with a body that is missing or empty after
\* trimming: on both API entry points (POST /api/analyze of the FastAPI and
\* of the Flask application) such a request gets an error response and
\* analyze_email / PhishingDetector.analyze_email is not called.
C14_EmptyBodyRejected ==
    /\ \A i \in 1..Len(engine_calls) : ~EmptyBody(engine_calls[i])
    /\ (call \in {FastAPI, Flask} /\ EmptyBody(http_req.body) /\ http_resp # <<>>)
           => http_resp[1].status >= 400

(***************************************************************************)
(* Frame and independence of analyze_email                                 *)
(***************************************************************************)
\* C15: analyze_email leaves the request unchanged: no step of an analysis
\* changes a field of the payload, so after the call the urls list (which is
\* merged with the urls of the body) and the attachments list have the
\* values and the order they had before it.
C15_RequestUnchanged ==
    [][(\E r \in Runs : pc[r] # "idle") => payload' = payload]_vars

\* an analysis returned after it merged a url of the body with the urls of
\* the request, which also names an attachment
C15_MergedAndReturned ==
    /\ response[1] # <<>>
    /\ payload.urls # <<>>
    /\ payload.attachments # <<>>
    /\ Len(urls[1]) > Len(payload.urls)

\* the insights lookup_urls returns for the urls, given the key of the
\* environment and the collaborator's answers, url by url
InsightsAlone(links, key, replies) ==
    IF links = <<>> THEN <<>>
    ELSE IF KeyMissing(key) THEN KeylessInsights(links)
    ELSE [i \in 1..Len(links) |->
             IF replies[i] = NotAsked THEN UnknownInsight(links[i])
             ELSE AnsweredInsight(links[i], replies[i])]

\* the response built from the findings, their score and the insights
ResponseOf(found, score_risk, links, url_insights) ==
    [overall_risk |-> score_risk.risk,
     score |-> score_risk.score,
     findings |-> found,
     url_insights |-> url_insights,
     recommendations |-> _build_recommendations(score_risk.risk, found, links # <<>>)]

ResponseOfFindings(found, links, key, replies) ==
    ResponseOf(found, _score_findings(found), links, InsightsAlone(links, key, replies))

ResponseOfUrls(request, links, hash_seed, key, replies) ==
    ResponseOfFindings(DetectAll(request, links, hash_seed), links, key, replies)

\* what analyze_email returns for the request when it runs alone, under the
\* hash seed, with the key and the collaborator's answers
ResponseAlone(request, hash_seed, key, replies) ==
    ResponseOfUrls(request, _collect_urls(request), hash_seed, key, replies)

\* C16: under every interleaving of the steps of concurrent analyze_email
\* calls, each call returns the response it would return if it ran alone
\* with the same collaborator answers: no step of one analysis writes what
\* another reads.
C16_AsIfAlone ==
    \A r \in Runs :
        response[r] # <<>> =>
            response[r][1] = ResponseAlone(payload, seed[r], api_key[r], answers[r])

\* two concurrent analyses, both with a key, were answered differently and
\* returned different insights
C16_AnsweredDifferently ==
    /\ response[1] # <<>>
    /\ response[2] # <<>>
    /\ answers[1] # <<>>
    /\ answers[2] # <<>>
    /\ answers[1] # answers[2]
    /\ response[1][1].url_insights # response[2][1].url_insights

(***************************************************************************)
(* Properties of the standalone engine                                     *)
(***************************************************************************)
\* the points of a component on the scale <<high, medium, low>>, 0 when it
\* detected nothing or was not run
Share(component, scale) ==
    IF ~GetDetected(component) THEN 0
    ELSE IF component.severity = "high" THEN scale[1]
    ELSE IF component.severity = "medium" THEN scale[2]
    ELSE scale[3]

\* the sum of the shares of the five components
SumOfShares(result) ==
    Share(result.urgency_tactics, <<20, 12, 5>>)
    + Share(result.sender_analysis, <<25, 15, 8>>)
    + Share(result.sensitive_info_requests, <<25, 15, 8>>)
    + Share(result.link_analysis, <<20, 12, 6>>)
    + Share(result.grammar_issues, <<10, 6, 3>>)

\* High from 60, Medium from 30, else Low
LevelByThreshold(score, level) ==
    level = IF score >= 60 THEN "High" ELSE IF score >= 30 THEN "Medium" ELSE "Low"

\* the result holds the four keys, a score in 0..100 that is the sum of its
\* components' shares, and the level of that score
Assessment(result) ==
    /\ {"risk_level", "risk_score", "urgency_tactics", "explanation"}
           \subseteq DOMAIN result
    /\ result.risk_score \in 0..100
    /\ result.risk_score = SumOfShares(result)
    /\ LevelByThreshold(result.risk_score, result.risk_level)

\* C17: for any content, with sender and subject present or absent,
\* PhishingDetector.analyze_email returns a result with the keys risk_level,
\* risk_score, urgency_tactics and explanation, whose risk_score is an
\* integer in 0..100, reached without a cap as the sum of the components'
\* contributions of at most 20, 25, 25, 20 and 10, and whose risk_level is
\* High from 60, Medium from 30, else Low; so is the result the Flask
\* application returns.
C17_AssessmentInRange ==
    /\ pd_ret # <<>> => Assessment(pd_ret[1])
    /\ (call = Flask /\ http_resp # <<>> /\ http_resp[1].status = 200)
           => Assessment(http_resp[1].body)

\* a call without subject in which the five components all contributed
\* their maximum returned 100
C17_FullScore ==
    /\ pd_ret # <<>>
    /\ pd_arg.subject = None
    /\ pd_ret[1].risk_score = 100
    /\ pd_ret[1].risk_level = "High"

(***************************************************************************)
(* Properties of the urgency and sender detectors                          *)
(***************************************************************************)
\* a lexicon phrase occurs in the lower-cased text low
PhraseSignal(low) ==
    \E i \in 1..Len(URGENT_PHRASES) : Contains(low, URGENT_PHRASES[i])

\* at least 3 words of text are fully upper-case and longer than 3 characters
CapsSignal(text) ==
    Len(SelectSeq(Tokens(text, 0, SpaceSet, TRUE),
                  LAMBDA word : IsUpperWord(word) /\ Len(word) > 3)) >= 3

\* a run of 2 or more exclamation marks occurs in text
ExclamationSignal(text) == Contains(text, "!!")

\* the number of the three signals present in text
SignalCount(text) ==
    (IF PhraseSignal(Lower(text)) THEN 1 ELSE 0)
    + (IF CapsSignal(text) THEN 1 ELSE 0)
    + (IF ExclamationSignal(text) THEN 1 ELSE 0)

\* what the urgency findings must be for the number of signals present
UrgencyFindingsAre(found, signals) ==
    IF signals = 0 THEN found = <<>>
    ELSE /\ Len(found) = 1
         /\ found[1].severity = IF signals = 1 THEN "medium" ELSE "high"

\* C18: _detect_urgency returns one "Urgency Tactics" finding if and only if
\* at least one of three signals is present in the subject or the body (a
\* lexicon phrase in the case-folded text, at least 3 fully upper-case words
\* longer than 3 characters, a run of 2 or more exclamation marks); its
\* severity is medium when exactly one signal fired and high when two or
\* three fired.
C18_UrgencySignals ==
    \A r \in Runs :
        Detected(r) =>
            UrgencyFindingsAre(OfCategory(findings[r], "Urgency Tactics"),
                               SignalCount(payload.subject \o " " \o payload.body))

\* the same with the upper-case words and the exclamation marks looked for
\* in the body only, as lines 104-105 do
SignalCountAsCoded(request) ==
    (IF PhraseSignal(Lower(request.subject \o " " \o request.body)) THEN 1 ELSE 0)
    + (IF CapsSignal(request.body) THEN 1 ELSE 0)
    + (IF ExclamationSignal(request.body) THEN 1 ELSE 0)

UrgencyAsCoded ==
    \A r \in Runs :
        Detected(r) =>
            UrgencyFindingsAre(OfCategory(findings[r], "Urgency Tactics"),
                               SignalCountAsCoded(payload))

\* the address of a sender or reply-to field: what stands between "<" and
\* ">" if the field has a display name, else the field
AddressIn(field) ==
    IF Contains(field, "<") /\ Contains(field, ">")
    THEN Slice(field, Find(field, "<") + 1, Find(field, ">"))
    ELSE Strip(field)

\* the domain of a sender or reply-to field, None when there is none
DomainIn(field) ==
    IF field \in {None, ""} THEN None
    ELSE IF ~Contains(AddressIn(field), "@") THEN None
    ELSE Lower(Last(SplitOn(AddressIn(field), "@")))

\* the domains of the links that have one
UrlDomainSet(links) == {_domain_from_url(links[i]) : i \in 1..Len(links)} \ {None}

\* the evidence items about the reply-to address, and about the links
ReplyItems(evidence) == SelectSeq(evidence, LAMBDA item : StartsWith(item, "Sender domain "))

LinkItems(evidence) ==
    SelectSeq(evidence, LAMBDA item : StartsWith(item, "Links point to domains ("))

\* the domains a link item lists between its parentheses
ListedDomains(item) ==
    {Strip(SplitOn(Slice(item, Find(item, "(") + 1, Find(item, ")")), ",")[i]) :
        i \in 1..Len(SplitOn(Slice(item, Find(item, "(") + 1, Find(item, ")")), ","))}

\* the link items list at most `most` of the domains
ListsSample(items, domains, most) ==
    \A i \in 1..Len(items) :
        /\ ListedDomains(items[i]) \subseteq domains
        /\ Cardinality(ListedDomains(items[i])) = Min(most, Cardinality(domains))

\* what the sender findings must be, reply and link telling whether the
\* reply-to item and the link item are due
SenderFindingsAre(found, reply, link, domains) ==
    IF ~reply /\ ~link THEN found = <<>>
    ELSE /\ Len(found) = 1
         /\ found[1].severity = IF reply /\ link THEN "high" ELSE "medium"
         /\ Len(ReplyItems(found[1].evidence)) = IF reply THEN 1 ELSE 0
         /\ Len(LinkItems(found[1].evidence)) = IF link THEN 1 ELSE 0
         /\ Len(found[1].evidence) = (IF reply THEN 1 ELSE 0) + (IF link THEN 1 ELSE 0)
         /\ ListsSample(LinkItems(found[1].evidence), domains, 3)

SenderFindingsFor(found, sender_domain, reply_to_domain, domains) ==
    SenderFindingsAre(found,
                      /\ sender_domain # None
                      /\ reply_to_domain # None
                      /\ sender_domain # reply_to_domain,
                      /\ sender_domain # None
                      /\ domains # {}
                      /\ sender_domain \notin domains,
                      domains)

\* C19: _detect_sender_anomalies records a reply-to item iff the sender and
\* the reply-to domains are both present and differ, and a link item iff the
\* sender domain is present, at least one url has a domain and the sender
\* domain is not among the url domains (the item lists at most 3 of them);
\* it returns one finding iff an item was recorded, high for two items and
\* medium for one.
C19_SenderEvidence ==
    \A r \in Runs :
        Detected(r) =>
            SenderFindingsFor(OfCategory(findings[r], "Sender Domain Mismatch"),
                              DomainIn(payload.sender), DomainIn(payload.reply_to),
                              UrlDomainSet(urls[r]))

\* the links of a request have four domains, none the sender's: the one
\* item lists three of them and the finding is medium
C19_ThreeOfFourListed ==
    /\ Detected(1)
    /\ Cardinality(UrlDomainSet(urls[1])) = 4
    /\ Len(OfCategory(findings[1], "Sender Domain Mismatch")) = 1
    /\ OfCategory(findings[1], "Sender Domain Mismatch")[1].severity = "medium"
    /\ Cardinality(ListedDomains(
           OfCategory(findings[1], "Sender Domain Mismatch")[1].evidence[1])) = 3

\* the domain ends with a top-level domain of the blocklist
BlocklistedTld(domain) ==
    \E i \in 1..Len(SUSPICIOUS_TLDS) : EndsWith(domain, SUSPICIOUS_TLDS[i])

\* the domain holds a brand name but none of the brand's legitimate domains
BrandWithoutItsDomain(domain) ==
    \E c \in 1..Len(LEGITIMATE_DOMAINS) :
        /\ Contains(domain, LEGITIMATE_DOMAINS[c].company)
        /\ \A i \in 1..Len(LEGITIMATE_DOMAINS[c].domains) :
              ~Contains(domain, LEGITIMATE_DOMAINS[c].domains[i])

\* the domain holds a run of 3 or more identical characters
IdenticalRun(domain) ==
    \E i \in 0..(Len(domain) - 3) :
        At(domain, i) = At(domain, i + 1) /\ At(domain, i) = At(domain, i + 2)

\* the domain holds a known misspelling
KnownMisspelling(domain) ==
    \E m \in {"g00gle", "micros0ft", "amazn", "paypa1"} : Contains(domain, m)

\* the sender domain is suspicious on its own
SuspiciousAlone(domain) ==
    /\ domain # None
    /\ \/ BlocklistedTld(domain)
       \/ BrandWithoutItsDomain(domain)
       \/ CountChar(domain, ".") > 3
       \/ IdenticalRun(domain)
       \/ KnownMisspelling(domain)

\* the detector of analyze_email reports a sender that is suspicious on its
\* own although the request has no reply-to address and no url
SenderAloneInAnalyze ==
    \A r \in Runs :
        (/\ Detected(r)
         /\ payload.reply_to = None
         /\ urls[r] = <<>>
         /\ SuspiciousAlone(DomainIn(payload.sender)))
        => /\ OfCategory(findings[r], "Sender Domain Mismatch") # <<>>
           /\ OfCategory(findings[r], "Sender Domain Mismatch")[1].evidence # <<>>

\* the sender analysis of the standalone engine reports such a sender
SenderAloneInStandalone ==
    (/\ pd_ret # <<>>
     /\ SuspiciousAlone(DomainIn(pd_arg.sender)))
    => /\ GetDetected(pd_ret[1].sender_analysis)
       /\ pd_ret[1].sender_analysis.issues # <<>>

\* C20: the sender detector also evaluates the sender domain on its own: a
\* sender whose domain has a blocklisted top-level domain, holds a brand name
\* without that brand's legitimate domain, has more than 3 dots, holds a run
\* of 3 or more identical characters or a known misspelling yields a
\* sender-anomaly evidence item even without reply-to address and url.
C20_SenderAlone == SenderAloneInAnalyze /\ SenderAloneInStandalone

(***************************************************************************)
(* The severity of the Suspicious Links finding                            *)
(***************************************************************************)
\* an evidence entry of an IP literal or of a typosquatted domain
IpOrTyposquat(entry) ==
    EndsWith(entry, " uses raw IP address.") \/ EndsWith(entry, " appears typosquatted.")

\* some entry of the list is of that kind
Escalated(evidence) ==
    \E k \in 1..Len(evidence) : IpOrTyposquat(evidence[k])

\* the severity is high exactly when such an entry was recorded
SeverityFollows(severity, evidence) ==
    /\ severity \in {"medium", "high"}
    /\ severity = "high" <=> Escalated(evidence)

\* what the call returned: no finding without evidence, else one finding
\* that opens with the evidence of the loop
ReturnedLinks(found, recorded) ==
    /\ recorded = <<>> /\ Len(fn_arg) <= ManyLinks => found = <<>>
    /\ recorded # <<>> => Len(found) = 1
    /\ \A k \in 1..Len(found) :
          /\ found[k].evidence # <<>>
          /\ Take(found[k].evidence, Len(recorded)) = recorded
          /\ SeverityFollows(found[k].severity, found[k].evidence)

\* the entries the step from the unprimed to the primed state recorded
NewEntries == SubSeq(loop'.evidence, Len(loop.evidence) + 1, Len(loop'.evidence))

\* the severity only rises, and it rises at the url that records an IP
\* literal or a typosquatted domain
StickyStep ==
    /\ loop.severity = "high" => loop'.severity = "high"
    /\ loop.at = "loop" /\ loop'.at = "loop" =>
          /\ Take(loop'.evidence, Len(loop.evidence)) = loop.evidence
          /\ Escalated(NewEntries) => loop'.severity = "high"
          /\ loop.severity = "medium" /\ loop'.severity = "high" => Escalated(NewEntries)

\* C21: in _detect_suspicious_links the severity starts at medium, becomes
\* high at the first url that records IP-literal or typosquat evidence and
\* never returns to medium; the finding returned is high if and only if such
\* evidence was recorded, and no finding is returned without evidence.
C21_StickySeverity ==
    /\ [](/\ loop.at = "loop" /\ loop.i = 0 => loop.severity = "medium"
          /\ SeverityFollows(loop.severity, loop.evidence)
          /\ call = "_detect_suspicious_links" /\ fn_ret # <<>> =>
                ReturnedLinks(fn_ret[1], loop.evidence))
    /\ [][StickyStep]_vars

\* C21 witness: an IP literal, then a url that is plain HTTP only
C21_HighThenMediumGrade ==
    /\ call = "_detect_suspicious_links"
    /\ fn_arg = <<"https://10.0.0.1/", "http://a.com/x">>
    /\ fn_ret # <<>>
    /\ Len(fn_ret[1]) = 1
    /\ fn_ret[1][1].severity = "high"
    /\ Len(fn_ret[1][1].evidence) = 2
    /\ ~IpOrTyposquat(fn_ret[1][1].evidence[2])

(***************************************************************************)
(* Typosquatting patterns                                                  *)
(***************************************************************************)
\* the domain without its dots holds a run of 3 or more identical characters
RunOfThree(domain) == IdenticalRun(WithoutDots(domain))

\* the domain holds one of the fixed patterns
FixedPattern(domain) ==
    \E k \in 1..Len(TyposquatPatterns) : Contains(domain, TyposquatPatterns[k])

\* C22: _has_typosquatting_pattern returns true for every domain that, with
\* its dots removed, holds a run of 3 or more identical consecutive
\* characters and for every domain that holds one of the fixed patterns, and
\* false for every other domain.
C22_TyposquatPattern ==
    call = "_has_typosquatting_pattern" /\ fn_ret # <<>> =>
        (fn_ret[1] <=> RunOfThree(fn_arg) \/ FixedPattern(fn_arg))

\* What the code computes: the fixed patterns only, for the domains that
\* hold no backslash.
TyposquatAsCoded ==
    call = "_has_typosquatting_pattern" /\ fn_ret # <<>> =>
        (fn_ret[1] <=> FixedPattern(fn_arg))

(***************************************************************************)
(* Links that are not served over HTTPS                                    *)
(***************************************************************************)
\* the evidence entry that tells of a url that it is not served over HTTPS
NotHttpsEntry(url) == "URL " \o Quoted(url) \o " is not served over HTTPS."

\* the urls the loop has been through
Scanned == Take(fn_arg, loop.i)

\* the url has a resolvable domain
Resolvable(url) == _domain_from_url(url) # None

\* the scheme of the url is https
IsHttps(url) == StartsWith(Lower(url), "https://")

\* C23: in _detect_suspicious_links every url with a resolvable domain whose
\* scheme is anything other than https (http://, another scheme such as
\* ftp://, or no scheme at all) contributes a not-served-over-HTTPS evidence
\* entry, and no https:// url contributes one.
C23_NonHttpsFlagged ==
    call = "_detect_suspicious_links" =>
        \A k \in 1..Len(Scanned) :
            InList(loop.evidence, NotHttpsEntry(Scanned[k]))
                <=> Resolvable(Scanned[k]) /\ ~IsHttps(Scanned[k])

\* What the code computes: the entry is recorded for the urls that start
\* with http://, whatever the case of the letters, and for no other url.
PlainHttpAsCoded ==
    call = "_detect_suspicious_links" =>
        \A k \in 1..Len(Scanned) :
            InList(loop.evidence, NotHttpsEntry(Scanned[k]))
                <=> Resolvable(Scanned[k]) /\ StartsWith(Lower(Scanned[k]), "http://")

(***************************************************************************)
(* The Grammar & Style finding                                             *)
(***************************************************************************)
\* the number of words of the body: a word is a maximal run of letters and
\* apostrophes
WordCount(body) == CountRuns(body, 0, AlphaSet \cup {"'"}, 1)

\* three characters of the class in a row, somewhere in the body
RunOfThreeIn(body, cls) ==
    \E i \in 0..(Len(body) - 3) : \A d \in 0..2 : At(body, i + d) \in cls

\* more than one word in five is unusual
RatioFired(body) ==
    5 * UnusualCount(FindWords(body)) > WordCount(body)

\* the number of indicators that fired
IndicatorsOf(ratio, punctuation, spacing) ==
    (IF ratio THEN 1 ELSE 0) + (IF punctuation THEN 1 ELSE 0) + (IF spacing THEN 1 ELSE 0)

Indicators(body) ==
    IndicatorsOf(RatioFired(body),
                 RunOfThreeIn(body, {"?", "!", "."}),
                 RunOfThreeIn(body, SpaceSet))

\* the findings are those of a body of that many words and indicators
LanguageFindingsAre(found, words, indicators) ==
    IF words < MinWords \/ indicators = 0 THEN found = <<>>
    ELSE /\ Len(found) = 1
         /\ found[1].category = "Grammar & Style"
         /\ found[1].severity = (IF indicators = 1 THEN "low" ELSE "medium")
         /\ Len(found[1].evidence) = indicators

\* C24: _detect_language_anomalies returns no finding when the body has
\* fewer than 20 words, whatever its punctuation and spacing; otherwise it
\* returns one finding if and only if at least one of the three indicators
\* fired, of severity low for one indicator and medium for two or three.
C24_LanguageFinding ==
    call = "_detect_language_anomalies" /\ fn_ret # <<>> =>
        LanguageFindingsAre(fn_ret[1], WordCount(fn_arg.body), Indicators(fn_arg.body))

\* C24 witness: a body of twenty words or more on which the three
\* indicators fired, answered by a finding of severity medium
C24_ThreeIndicatorsMedium ==
    /\ call = "_detect_language_anomalies"
    /\ fn_ret # <<>>
    /\ WordCount(fn_arg.body) >= MinWords
    /\ Indicators(fn_arg.body) = 3
    /\ Len(fn_ret[1]) = 1
    /\ fn_ret[1][1].severity = "medium"

(***************************************************************************)
(* Unusual tokens                                                          *)
(***************************************************************************)
\* the token holds a digit
HasDigit(token) == \E i \in 0..(Len(token) - 1) : At(token, i) \in DigitSet

\* the number of pairs of consecutive characters that are not common pairs
RarePairs(token) ==
    Cardinality({i \in 0..(Len(token) - 2) :
                    At(token, i) \o At(token, i + 1) \notin COMMON_BIGRAMS})

\* max(2, ceil(length / 3))
RareThreshold(token) ==
    IF Len(token) <= 6 THEN 2
    ELSE CHOOSE c \in 1..Len(token) : 3 * (c - 1) < Len(token) /\ Len(token) <= 3 * c

\* the token, in lower case, is longer than 3 characters and no common word
Eligible(token) == Len(token) > 3 /\ token \notin COMMON_ENGLISH_WORDS

\* an eligible token is unusual for its digit, for its run of 3 identical
\* characters, or else for the number of its rare pairs
UnusualAsSpecified(token) ==
    /\ Eligible(token)
    /\ \/ HasDigit(token)
       \/ IdenticalRun(token)
       \/ RarePairs(token) >= RareThreshold(token)

\* the words of the list that are unusual in that sense
UnusualWords(words) ==
    {k \in 1..Len(words) : UnusualAsSpecified(Lower(words[k]))}

\* C25: in _estimate_spelling_issues a token longer than 3 characters that
\* is no common word counts as unusual whenever it holds a digit or a run of
\* 3 identical consecutive characters, however many rare pairs it has;
\* otherwise it counts as unusual exactly when the number of its rare pairs
\* is at least max(2, ceil(length / 3)).
C25_UnusualToken ==
    call = "_estimate_spelling_issues" /\ fn_ret # <<>> /\ fn_arg # <<>> =>
        /\ fn_ret[1].den = Len(fn_arg)
        /\ fn_ret[1].num = Cardinality(UnusualWords(fn_arg))

\* What the code computes: the run of 3 identical characters counts for
\* nothing, the digit and the rare pairs count as specified.
UnusualAsCoded ==
    call = "_estimate_spelling_issues" /\ fn_ret # <<>> /\ fn_arg # <<>> =>
        fn_ret[1].num =
            Cardinality({k \in 1..Len(fn_arg) :
                /\ Eligible(Lower(fn_arg[k]))
                /\ \/ HasDigit(Lower(fn_arg[k]))
                   \/ RarePairs(Lower(fn_arg[k])) >= RareThreshold(Lower(fn_arg[k]))})

(***************************************************************************)
(* Recommendations                                                         *)
(***************************************************************************)
\* the four pieces of advice, in the order of their rules
Advice ==
    <<"Do not interact with the email. Report it to your security team.",
      "Never share credentials or personal information via email links.",
      "Hover over links to inspect destinations before clicking.",
      "Verify the sender through a known, trusted communication channel.">>

GenericCaution == "Email appears lower risk but remain vigilant."

\* the conditions of the four rules for the arguments of a call
Conditions(args) ==
    <<args.risk = "high",
      \E k \in 1..Len(args.findings) : args.findings[k].category = "Sensitive Data Request",
      args.has_urls,
      \E k \in 1..Len(args.findings) : args.findings[k].category = "Sender Domain Mismatch">>

\* the position of an entry of the list
PositionOf(xs, x) == CHOOSE k \in 1..Len(xs) : xs[k] = x

\* the list holds each advice whose condition holds, in the order of the
\* rules, and else the generic caution alone
RecommendationsAre(list, conditions) ==
    /\ list # <<>>
    /\ NoDuplicates(list)
    /\ \A k \in 1..Len(list) : InList(Advice, list[k]) \/ list[k] = GenericCaution
    /\ \A a \in 1..4 : InList(list, Advice[a]) <=> conditions[a]
    /\ \A a, b \in 1..4 :
          a < b /\ conditions[a] /\ conditions[b] =>
              PositionOf(list, Advice[a]) < PositionOf(list, Advice[b])
    /\ InList(list, GenericCaution) <=> \A a \in 1..4 : ~conditions[a]
    /\ InList(list, GenericCaution) => list = <<GenericCaution>>

\* C26: _build_recommendations returns a non-empty list without duplicates
\* whose entries stand in the fixed order high-risk advice, sensitive-data
\* advice, link advice, sender advice, each present if and only if its
\* condition holds; the generic caution is present if and only if none of
\* the four conditions holds, and it is then the only entry.
C26_Recommendations ==
    call = "_build_recommendations" /\ fn_ret # <<>> =>
        RecommendationsAre(fn_ret[1], Conditions(fn_arg))

\* C26 witness: the four conditions hold and the four pieces of advice are
\* returned
C26_AllFourAdvised ==
    /\ call = "_build_recommendations"
    /\ fn_ret # <<>>
    /\ \A a \in 1..4 : Conditions(fn_arg)[a]
    /\ Len(fn_ret[1]) = 4

(***************************************************************************)
(* The order of the findings                                               *)
(***************************************************************************)
\* the rank of a category in the order of the detectors, 0 for a category
\* of no detector
RankOf(category) ==
    IF InList(Categories, category) THEN PositionOf(Categories, category) ELSE 0

\* the findings are of the six categories and their ranks rise strictly
InDetectorOrder(found) ==
    /\ \A k \in 1..Len(found) : RankOf(found[k].category) # 0
    /\ \A i, j \in 1..Len(found) :
          i < j => RankOf(found[i].category) < RankOf(found[j].category)

\* C27: the findings of every analyze_email response hold at most one
\* finding for each detector category, so at most six, in the order Urgency
\* Tactics, Sensitive Data Request, Sender Domain Mismatch, Suspicious
\* Links, Suspicious Attachments, Grammar & Style.
C27_FindingsInDetectorOrder ==
    \A r \in Runs :
        response[r] # <<>> =>
            /\ Len(response[r][1].findings) <= 6
            /\ InDetectorOrder(response[r][1].findings)

\* C27 witness: a response with a finding of each of the six detectors
C27_SixFindings ==
    \E r \in Runs :
        /\ response[r] # <<>>
        /\ Len(response[r][1].findings) = 6

(***************************************************************************)
(* The domain of an address                                                *)
(***************************************************************************)
\* the registrable domain of the address of a field: its domain with the
\* subdomains dropped, as for the host of a url; None when there is none
RegistrableIn(field) ==
    IF DomainIn(field) = None THEN None ELSE _domain_from_url(DomainIn(field))

\* C28: the domain derived from a sender or reply-to address is its
\* registrable domain, as for urls, so that a sender at mail.example.com
\* and a link to (or a reply-to at) example.com resolve to one domain and
\* give no Sender Domain Mismatch evidence; a malformed address has no
\* domain.
C28_RegistrableAddressDomain ==
    \A r \in Runs :
        Detected(r) =>
            SenderFindingsFor(OfCategory(findings[r], "Sender Domain Mismatch"),
                              RegistrableIn(payload.sender),
                              RegistrableIn(payload.reply_to),
                              UrlDomainSet(urls[r]))

(***************************************************************************)
(* The status and the reputation of an insight                             *)
(***************************************************************************)
\* the reputation that goes with a status
ReputationOf(status) ==
    CASE status = "clean" -> "no-data"
      [] status = "malicious" -> "block"
      [] status = "review" -> "suspicious"
      [] OTHER -> None

\* the status and the reputation of the insight are paired
Paired(insight) ==
    /\ insight.status \in {"clean", "malicious", "review", "unknown", "error", "unavailable"}
    /\ insight.reputation = ReputationOf(insight.status)
    /\ insight.reputation = "no-data" <=> insight.status = "clean"
    /\ insight.reputation = "block" <=> insight.status = "malicious"
    /\ insight.reputation = "suspicious" <=> insight.status = "review"

\* the number of prior scans the collaborator reported in its answer
PriorScans(answer) == IF answer.total = -1 THEN 0 ELSE answer.total

\* the insight of an answered request is clean only for zero prior scans
CleanOnlyUnscanned(insight, answer) ==
    insight.status = "clean" =>
        /\ answer.outcome = "response"
        /\ PriorScans(answer) = 0

\* C29: every URLInsight of lookup_urls has a status among clean, malicious,
\* review, unknown, error and unavailable, with the reputation "no-data"
\* exactly for clean (zero prior scans), "block" exactly for malicious,
\* "suspicious" exactly for review and none for the other three; a domain
\* with one or more prior scans is never reported as clean.
C29_StatusReputationPaired ==
    \A r \in Runs :
        \A k \in 1..Len(insights[r]) :
            /\ Paired(insights[r][k])
            /\ k <= Len(answers[r]) => CleanOnlyUnscanned(insights[r][k], answers[r][k])

\* C29 witness: of two lookups of one analysis, one is answered with two
\* prior scans and reported for review, the other with none and reported
\* clean
C29_ReviewAndClean ==
    \E r \in Runs :
        \E j, k \in 1..Min(Len(insights[r]), Len(answers[r])) :
            /\ PriorScans(answers[r][j]) = 2
            /\ insights[r][j].status = "review"
            /\ insights[r][j].reputation = "suspicious"
            /\ PriorScans(answers[r][k]) = 0
            /\ insights[r][k].status = "clean"

(***************************************************************************)
(* One finding never makes the risk high                                   *)
(***************************************************************************)
\* the rank of a risk level
RiskRank(risk) == CASE risk = "low" -> 0 [] risk = "medium" -> 1 [] risk = "high" -> 2

\* the risk of a list of one finding follows its severity, and a high risk
\* takes two findings or more
SingleFindingRule(found, risk) ==
    /\ Len(found) = 1 =>
          risk = (IF found[1].severity = "high" THEN "medium" ELSE "low")
    /\ risk = "high" => Len(found) >= 2

\* the list with the finding put in after its first k entries
WithFinding(found, k, finding) ==
    SubSeq(found, 1, k) \o <<finding>> \o SubSeq(found, k + 1, Len(found))

\* the result for the longer list is no lower than the result for the list
NoLower(result, longer) ==
    /\ longer.score >= result.score
    /\ RiskRank(longer.risk) >= RiskRank(result.risk)

\* a finding put in anywhere in the list lowers neither the score nor the risk
AddingNeverLowers(found, result) ==
    \A k \in 0..Len(found) :
        \A severity \in Severities :
            NoLower(result, _score_findings(WithFinding(found, k, SomeFinding(severity))))

\* C30: a single finding never produces the overall risk high: with exactly
\* one finding the risk is medium if the finding is of high severity and low
\* otherwise; a high risk takes at least two findings; adding a finding to
\* a list of findings never lowers the score or the risk level.
C30_OneFindingNeverHigh ==
    /\ sf_ret # <<>> =>
          /\ SingleFindingRule(sf_arg, sf_ret[1].risk)
          /\ AddingNeverLowers(sf_arg, sf_ret[1])
    /\ \A r \in Runs :
          response[r] # <<>> =>
              /\ SingleFindingRule(response[r][1].findings, response[r][1].overall_risk)
              /\ AddingNeverLowers(response[r][1].findings,
                                   [score |-> response[r][1].score,
                                    risk |-> response[r][1].overall_risk])

\* C30 witness: an analysis whose single finding is of high severity is
\* answered with the risk medium
C30_SingleHighFindingMedium ==
    \E r \in Runs :
        /\ response[r] # <<>>
        /\ Len(response[r][1].findings) = 1
        /\ response[r][1].findings[1].severity = "high"
        /\ response[r][1].overall_risk = "medium"
        /\ response[r][1].score = 35

=============================================================================
